---------------------------- MODULE Spec2Model ----------------------------
(***************************************************************************)
(* Verification model of the memory search engine (wj5403293/MX, Rust).    *)
(*                                                                         *)
(* Part 1 models SearchEngineManager (search/engine/manager.rs): the       *)
(* submission entry points, the coordinator tasks they spawn, the shared   *)
(* status buffer, the cancellation token and the reader/writer lock that   *)
(* guards the result store.                                                *)
(* Part 2 models the per-chunk matchers (single_search.rs and              *)
(* pattern_search.rs) as pure functions over a page-aligned buffer.        *)
(* Part 3 models FuzzySearchResultManager (result_manager/fuzzy.rs): the   *)
(* memory tier, the memory-mapped disk tier and the record counters.       *)
(* Part 4 models MapQueue (pointer_scan/mapqueue_v2.rs): a growable array  *)
(* backed by memory-mapped temporary files.                                *)
(* Part 5 models the pointer-chain scanner: PointerScanManager             *)
(* (pointer_scan/manager.rs) and the reverse BFS of BfsV2Scanner           *)
(* (pointer_scan/chain_builder/bfs_v2.rs).                                 *)
(*                                                                         *)
(* Target memory is not part of the model state: every gateway read        *)
(* returns a nondeterministic outcome, so "the value at address a matches" *)
(* is a nondeterministic choice made at the step that reads a.             *)
(***************************************************************************)
EXTENDS Integers, Sequences, FiniteSets, TLC

(***************************************************************************)
(* Bounds of the model.                                                    *)
(***************************************************************************)
\* highest element slot of the modelled address space (addresses 0..MaxAddr)
MaxAddr == 1
\* longest region list a submission may carry
MaxRegions == 2
\* number of coordinator tasks the runtime can hold at once
NSlots == 2
\* keep_results conversions are only taken while the store is this short
MaxKeep == 2

Addr == 0..MaxAddr
Slots == 1..NSlots
ValueTypes == {"Dword"}

\* [start, end) pairs, as passed by the caller (unsorted, may overlap)
Regions == {r \in (0..MaxAddr) \X (1..(MaxAddr + 1)) : r[1] < r[2]}
RegionLists == UNION {[1..n -> Regions] : n \in 0..MaxRegions}

VARIABLES
    initialized,        \* result_manager.is_some()
    compatibility_mode, \* SearchEngineManager.compatibility_mode
    mode,               \* SearchResultManager mode: "Exact" | "Fuzzy"
    store,              \* records of the result store, in iteration order
    status,             \* shared buffer: phase
    progress,           \* shared buffer: progress
    error_code,         \* shared buffer: error_code
    cancel_flag,        \* shared buffer: cancel_flag (written by the UI)
    writer,             \* holder of the manager's write lock: "none" | "ui" | "task"
    search_handle,      \* slot of the JoinHandle held by the manager, 0 = None
    cancel_token,       \* slot whose token the manager holds, 0 = None
    tasks               \* coordinator tasks, one record per runtime slot

VARIABLES
    m_in,               \* the arguments of one matcher call (Part 2)
    m_out,              \* the addresses the call pushed to `results`
    m_pc                \* "idle" | "ready" | "done"

engineVars == <<initialized, compatibility_mode, mode, store, status, progress,
                error_code, cancel_flag, writer, search_handle, cancel_token, tasks>>

matcherVars == <<m_in, m_out, m_pc>>

VARIABLES
    fuzzy_manager,      \* the FuzzySearchResultManager struct (Part 3)
    fuzzy_call          \* the last call made on it and its outcome

fuzzyVars == <<fuzzy_manager, fuzzy_call>>

VARIABLES
    map_queue,          \* one MapQueue<T> struct (Part 4)
    cache_files,        \* the files present in the cache directory
    file_counter,       \* FILE_COUNTER
    plain_vec           \* a Vec<T> given the same operations

queueVars == <<map_queue, cache_files, file_counter, plain_vec>>

VARIABLES
    scan_manager,       \* the PointerScanManager struct (Part 5)
    scan_buffer,        \* the pointer-scan shared status buffer
    scan_task           \* the coordinator spawned by start_scan_async

scanVars == <<scan_manager, scan_buffer, scan_task>>

VARIABLES
    driver_manager,     \* the DriverManager struct (Part 6)
    target_pages,       \* the pages of the bound process the driver can reach
    gateway_call,       \* the last read_memory_unified / write_memory_unified

    hb_buffer,          \* heartbeat_counter and the buffer fields a publish writes (Part 7)
    hb_threads,         \* the position of each publishing worker thread

    parse_input,        \* the string handed to parse_pattern (Part 8)
    parse_result,       \* what parse_pattern did with it

    batch_in,           \* the items and condition of a fuzzy refine (Part 9)
    batch_run           \* the batches, the reads made and the outcome

gatewayVars == <<driver_manager, target_pages, gateway_call>>
heartbeatVars == <<hb_buffer, hb_threads>>
parseVars == <<parse_input, parse_result>>
batchVars == <<batch_in, batch_run>>
smallVars == <<gatewayVars, heartbeatVars, parseVars, batchVars>>

vars == <<engineVars, matcherVars, fuzzyVars, queueVars, scanVars, smallVars>>

\* what the actions of one part leave alone
nonEngineVars == <<matcherVars, fuzzyVars, queueVars, scanVars, smallVars>>
nonMatcherVars == <<engineVars, fuzzyVars, queueVars, scanVars, smallVars>>
nonFuzzyVars == <<engineVars, matcherVars, queueVars, scanVars, smallVars>>
nonQueueVars == <<engineVars, matcherVars, fuzzyVars, scanVars, smallVars>>
nonScanVars == <<engineVars, matcherVars, fuzzyVars, queueVars, smallVars>>
bigVars == <<engineVars, matcherVars, fuzzyVars, queueVars, scanVars>>
nonGatewayVars == <<bigVars, heartbeatVars, parseVars, batchVars>>
nonHeartbeatVars == <<bigVars, gatewayVars, parseVars, batchVars>>
nonParseVars == <<bigVars, gatewayVars, heartbeatVars, batchVars>>
nonBatchVars == <<bigVars, gatewayVars, heartbeatVars, parseVars>>

-----------------------------------------------------------------------------
(***************************************************************************)
(* Helpers on sequences.                                                   *)
(***************************************************************************)
RECURSIVE SetToSeq(_)
\* the elements of a set of integers in ascending order
SetToSeq(S) ==
    IF S = {} THEN <<>>
    ELSE LET m == CHOOSE x \in S : \A y \in S : x <= y
         IN <<m>> \o SetToSeq(S \ {m})

RECURSIVE InsertByAddr(_, _)
InsertByAddr(sorted, p) ==
    IF sorted = <<>> THEN <<p>>
    ELSE IF p.addr < Head(sorted).addr THEN <<p>> \o sorted
    ELSE <<Head(sorted)>> \o InsertByAddr(Tail(sorted), p)

RECURSIVE SortByAddr(_)
\* all_results.sort_unstable_by(|a, b| a.addr.cmp(&b.addr))
SortByAddr(s) ==
    IF s = <<>> THEN <<>>
    ELSE InsertByAddr(SortByAddr(SubSeq(s, 1, Len(s) - 1)), s[Len(s)])

RECURSIVE Dedup(_)
\* Vec::dedup: drops an element equal (addr and value_type) to its predecessor
Dedup(s) ==
    IF Len(s) <= 1 THEN s
    ELSE LET rest == Dedup(Tail(s))
         IN IF Head(s) = Head(rest) THEN rest ELSE <<Head(s)>> \o rest

RECURSIVE SeqFilter(_, _)
SeqFilter(s, keepSet) ==
    IF s = <<>> THEN <<>>
    ELSE IF Head(s) \in keepSet THEN <<Head(s)>> \o SeqFilter(Tail(s), keepSet)
    ELSE SeqFilter(Tail(s), keepSet)

Range(s) == {s[i] : i \in 1..Len(s)}

-----------------------------------------------------------------------------
(***************************************************************************)
(* Records.                                                                *)
(***************************************************************************)
\* ValuePair::new(addr, value_type)
ValuePair(a, t) == [addr |-> a, value_type |-> t]

\* SearchResultItem::new_exact(address, typ)
new_exact(p) == [address |-> p.addr, typ |-> p.value_type, schema |-> "Exact"]

\* FuzzySearchResultItem::from_bytes(address, bytes, value_type)
from_bytes(p) == [address |-> p.addr, typ |-> p.value_type, schema |-> "Fuzzy"]

\* ValuePair::new(result.address, result.typ) in start_refine_async
ToPair(r) == ValuePair(r.address, r.typ)

\* a runtime slot that holds no task
FreeTask == [pc |-> "free", kind |-> "none", regions |-> <<>>, results |-> <<>>,
             current_results |-> <<>>,
             typ |-> "Dword", cancelled |-> FALSE, token |-> FALSE,
             compat |-> FALSE, original_mode |-> "Exact",
             total |-> 0, completed |-> 0, success |-> FALSE,
             join_err |-> FALSE, logged_error |-> FALSE]

-----------------------------------------------------------------------------
EngineInit ==
    /\ initialized = FALSE
    /\ compatibility_mode = FALSE
    /\ mode = "Exact"
    /\ store = <<>>
    /\ status = "Idle"
    /\ progress = 0
    /\ error_code = "None"
    /\ cancel_flag = 0
    /\ writer = "none"
    /\ search_handle = 0
    /\ cancel_token = 0
    /\ tasks = [s \in Slots |-> FreeTask]

\* no matcher call is being looked at
NoCall == [kind |-> "none", buffer |-> <<>>, buffer_addr |-> 0, region_start |-> 0,
           region_end |-> 0, status |-> <<>>, fast_int |-> FALSE, bytes |-> <<>>,
           pattern |-> <<>>]

\* FuzzySearchResultManager::new; mmap = <<>> stands for None
FuzzySearchResultManager(capacity) ==
    [memory_buffer |-> <<>>, memory_buffer_capacity |-> capacity,
     disk_file |-> FALSE, mmap |-> <<>>, disk_count |-> 0, total_count |-> 0]

\* no call has been made on the fuzzy store
NoFuzzyCall == [op |-> "none", indices |-> <<>>, ok |-> TRUE]

\* MapQueue::new; Option fields hold <<>> for None and <<x>> for Some(x)
MapQueueNew == [file_path |-> <<>>, data |-> <<>>, len |-> 0, capacity |-> 0,
                dropped |-> FALSE]

\* the parts of the model that a specification does not exercise stay put
MatcherIdle == m_in = NoCall /\ m_out = <<>> /\ m_pc = "idle"
FuzzyIdle == fuzzy_manager = FuzzySearchResultManager(0) /\ fuzzy_call = NoFuzzyCall
QueueIdle ==
    /\ map_queue = MapQueueNew
    /\ cache_files = {}
    /\ file_counter = 0
    /\ plain_vec = <<>>

\* PointerScanManager::new, an unwritten status buffer and no coordinator
ScanIdle ==
    /\ scan_manager = [current_phase |-> "Idle", last_error |-> "None",
                       scan_result |-> <<>>, scan_handle |-> FALSE,
                       cancel_token |-> "none"]
    /\ scan_buffer = [phase |-> "Idle", error_code |-> "None", progress |-> 0,
                      chains_found |-> 0, cancel_flag |-> 0]
    /\ scan_task = [pc |-> "none", target_address |-> 0, max_depth |-> 0,
                    max_offset |-> 0, static_modules |-> <<>>,
                    pointer_lib_result |-> "none", pointer_lib |-> <<>>,
                    scan_result |-> "none", output |-> <<>>, total_count |-> 0]

\* DriverManager::new, with no process to reach and no call made
GatewayIdle ==
    /\ driver_manager = [driver |-> FALSE, bound_process |-> FALSE, bound_pid |-> 0,
                         access_mode |-> "None"]
    /\ target_pages = {}
    /\ gateway_call = [op |-> "none"]

\* PointerScanSharedBuffer::new, with no worker publishing
HeartbeatIdle ==
    /\ hb_buffer = [heartbeat_counter |-> 0, heartbeat |-> 0, progress |-> 0,
                    regions_done |-> 0, pointers_found |-> 0]
    /\ hb_threads = <<>>

\* no pattern handed to the parser
ParseIdle ==
    /\ parse_input = <<>>
    /\ parse_result = [kind |-> "none"]

\* no refine handed to the batch reader
BatchIdle ==
    /\ batch_in = [items |-> <<>>, condition |-> "Initial"]
    /\ batch_run = [pc |-> "idle"]

SmallIdle == GatewayIdle /\ HeartbeatIdle /\ ParseIdle /\ BatchIdle

Init ==
    /\ EngineInit
    /\ MatcherIdle
    /\ FuzzyIdle
    /\ QueueIdle
    /\ ScanIdle
    /\ SmallIdle

-----------------------------------------------------------------------------
(***************************************************************************)
(* The result store facade (SearchResultManager).                          *)
(***************************************************************************)
\* set_mode(m): selects the schema and clears the contents
set_mode(st, m) == <<>>

\* add_results_batch / add_fuzzy_results_batch: append in the given order
add_results_batch(st, items) == st \o items

\* remove_results_batch(indices): drops the records at the listed indices
remove_results_batch(st, K) ==
    LET keep == SetToSeq({i \in 1..Len(st) : i \notin K})
    IN [j \in 1..Len(keep) |-> st[keep[j]]]

-----------------------------------------------------------------------------
(***************************************************************************)
(* The manager: liveness of the coordinator and cancellation.              *)
(***************************************************************************)
\* JoinHandle::is_finished
is_finished(s) == tasks[s].pc = "finished"

\* is_searching with the test of the handle inverted
is_searching_inverted ==
    IF search_handle # 0 THEN is_finished(search_handle) ELSE FALSE

\* SearchEngineManager::is_searching
is_searching ==
    IF search_handle # 0 THEN ~is_finished(search_handle) ELSE FALSE

\* coordinators that were spawned and have not run to their end
Alive == {s \in Slots : tasks[s].pc \notin {"free", "finished"}}

\* the slot a newly spawned task gets: the handle that is being replaced is
\* dropped, so a finished task it referred to gives its slot back
SlotsAfterDrop ==
    {s \in Slots : tasks[s].pc = "free" \/ (s = search_handle /\ is_finished(s))}

NewSlot == CHOOSE s \in SlotsAfterDrop : \A u \in SlotsAfterDrop : s <= u

\* TOKIO_RUNTIME.spawn(...) followed by self.search_handle = Some(handle)
Spawn(t) ==
    /\ SlotsAfterDrop # {}
    /\ tasks' = [s \in Slots |->
                    IF s = NewSlot THEN t
                    ELSE IF s = search_handle /\ is_finished(s) THEN FreeTask
                    ELSE tasks[s]]
    /\ search_handle' = NewSlot
    /\ cancel_token' = NewSlot

ResetBufferSearching_KeepFlag ==
    /\ status' = "Searching"
    /\ progress' = 0
    /\ error_code' = "None"
    /\ cancel_flag' = cancel_flag

\* shared_buffer.reset(); clear_cancel_flag(); write_status(Searching)
ResetBufferSearching ==
    /\ status' = "Searching"
    /\ progress' = 0
    /\ error_code' = "None"
    /\ cancel_flag' = 0

\* the rejection every start_*_async performs before touching anything else
Reject(code) ==
    /\ status' = "Error"
    /\ error_code' = code
    /\ UNCHANGED <<mode, store, progress, cancel_flag, search_handle, cancel_token, tasks>>

\* SearchEngineManager::init, called under the write lock by jni_init_search_engine
JniInit ==
    /\ writer = "none"
    /\ ~initialized
    /\ initialized' = TRUE
    /\ store' = <<>>
    /\ mode' = "Exact"
    /\ UNCHANGED <<compatibility_mode, status, progress, error_code, cancel_flag,
                   writer, search_handle, cancel_token, tasks>>
    /\ UNCHANGED nonEngineVars

\* set_compatibility_mode
SetCompatibilityMode(b) ==
    /\ writer = "none"
    /\ compatibility_mode' = b
    /\ UNCHANGED <<initialized, mode, store, status, progress, error_code, cancel_flag,
                   writer, search_handle, cancel_token, tasks>>
    /\ UNCHANGED nonEngineVars

\* request_cancel, called under the read lock by jni_request_cancel
\* (a token nobody polls any more is not tracked: tripping it changes nothing)
RequestCancel ==
    /\ writer = "none"
    /\ cancel_token # 0
    /\ tasks' = IF tasks[cancel_token].pc \in {"free", "finished"} THEN tasks
                ELSE [tasks EXCEPT ![cancel_token].token = TRUE]
    /\ UNCHANGED <<initialized, compatibility_mode, mode, store, status, progress,
                   error_code, cancel_flag, writer, search_handle, cancel_token>>
    /\ UNCHANGED nonEngineVars

\* the UI sets the cancel flag of the shared buffer (no lock involved); it
\* does so to stop the search it sees running
SetCancelFlag ==
    /\ cancel_flag = 0
    /\ status = "Searching"
    /\ cancel_flag' = 1
    /\ UNCHANGED <<initialized, compatibility_mode, mode, store, status, progress,
                   error_code, writer, search_handle, cancel_token, tasks>>
    /\ UNCHANGED nonEngineVars

\* the JNI entry point returns: its write guard is dropped
UiReturn ==
    /\ writer = "ui"
    /\ writer' = "none"
    /\ UNCHANGED <<initialized, compatibility_mode, mode, store, status, progress,
                   error_code, cancel_flag, search_handle, cancel_token, tasks>>
    /\ UNCHANGED nonEngineVars

-----------------------------------------------------------------------------
(***************************************************************************)
(* start_search_async and run_search_task.                                 *)
(***************************************************************************)
SearchTask(typ, regs) ==
    [FreeTask EXCEPT !.pc = IF regs = <<>> THEN "postcheck" ELSE "check",
                     !.kind = "search", !.regions = regs, !.typ = typ,
                     !.compat = compatibility_mode, !.total = Len(regs)]

\* fuzzy.address, fuzzy.value_type -> SearchResultItem::new_exact
FuzzyToExact(r) == [address |-> r.address, typ |-> r.typ, schema |-> "Exact"]

\* the accepted submission: prepare the store, reset the buffer, spawn
AcceptSearch(typ, regs, keep_results) ==
    /\ IF keep_results /\ mode = "Fuzzy" /\ store # <<>>
       THEN /\ Len(store) <= MaxKeep
            /\ store' = add_results_batch(set_mode(store, "Exact"),
                                          [i \in 1..Len(store) |-> FuzzyToExact(store[i])])
       ELSE store' = set_mode(store, "Exact")
    /\ mode' = "Exact"
    /\ ResetBufferSearching
    /\ Spawn(SearchTask(typ, regs))

StartSearchAsync ==
    /\ writer = "none"
    /\ writer' = "ui"
    /\ UNCHANGED <<initialized, compatibility_mode>>
    /\ IF ~initialized THEN Reject("NotInitialized")
       ELSE IF is_searching THEN Reject("AlreadySearching")
       ELSE \E typ \in ValueTypes, regs \in RegionLists, keep_results \in BOOLEAN :
               AcceptSearch(typ, regs, keep_results)
    /\ UNCHANGED nonEngineVars

\* addresses of the region that the chunked read loop visits
RegionAddrs(r) == {a \in Addr : r[1] <= a /\ a < r[2]}

\* the task moves on after a region: the reduce, and after the last region
\* the sort and dedup of the blocking closure
AfterRegion(t, all) ==
    LET rest == Tail(t.regions)
    IN IF rest = <<>>
       THEN [t EXCEPT !.regions = rest, !.pc = "postcheck",
                      !.results = IF t.kind = "search" THEN Dedup(SortByAddr(all)) ELSE all]
       ELSE [t EXCEPT !.regions = rest, !.pc = "check", !.results = all]

\* the cancellation check at the head of the per-region closure
RegionCheck(t) ==
    IF t.token \/ t.cancelled
    THEN AfterRegion([t EXCEPT !.cancelled = TRUE], t.results)
    ELSE IF cancel_flag # 0
    THEN AfterRegion([t EXCEPT !.cancelled = TRUE], t.results)
    ELSE [t EXCEPT !.pc = "scan"]

TaskRegionCheck(s) ==
    /\ tasks[s].pc = "check"
    /\ tasks[s].kind \in {"search", "fuzzy"}
    /\ (tasks[s].token \/ tasks[s].cancelled) \/ writer = "none"
    /\ tasks' = [tasks EXCEPT ![s] = RegionCheck(tasks[s])]
    /\ UNCHANGED <<initialized, compatibility_mode, mode, store, status, progress,
                   error_code, cancel_flag, writer, search_handle, cancel_token>>
    /\ UNCHANGED nonEngineVars

\* ((completed as f64 / total_regions as f64) * 100.0) as i32
ProgressOf(completed, total) == (completed * 100) \div total

\* search_region_single / fuzzy_initial_scan over one region, then the
\* progress update
TaskRegionScan(s) ==
    LET t == tasks[s] IN
    /\ t.pc = "scan"
    /\ t.kind \in {"search", "fuzzy"}
    /\ writer = "none"
    /\ \/ \E hits \in SUBSET RegionAddrs(Head(t.regions)) :
            /\ tasks' = [tasks EXCEPT ![s] =
                    AfterRegion([t EXCEPT !.completed = t.completed + 1],
                                t.results \o [i \in 1..Cardinality(hits) |->
                                                ValuePair(SetToSeq(hits)[i], t.typ)])]
            /\ progress' = ProgressOf(t.completed + 1, t.total)
       \/ \* Err(e) => { error!("Failed to search region"); Vec::new() }
          /\ tasks' = [tasks EXCEPT ![s] =
                    AfterRegion([t EXCEPT !.completed = t.completed + 1,
                                          !.logged_error = TRUE], t.results)]
          /\ progress' = ProgressOf(t.completed + 1, t.total)
       \/ \* a worker panics: spawn_blocking returns a JoinError
          /\ tasks' = [tasks EXCEPT ![s] = [t EXCEPT !.pc = "postcheck", !.join_err = TRUE,
                                                     !.regions = <<>>, !.results = <<>>]]
          /\ UNCHANGED progress
    /\ UNCHANGED <<initialized, compatibility_mode, mode, store, status,
                   error_code, cancel_flag, writer, search_handle, cancel_token>>
    /\ UNCHANGED nonEngineVars

\* a post-scan test that looks at the `cancelled` atomic alone
PostCheckCancelled_NoToken(t) == t.cancelled

\* if cancel_token.is_cancelled() || cancelled.load(Relaxed)
PostCheckCancelled(t) == t.token \/ t.cancelled

\* "Check if cancelled." after the blocking closure has returned
TaskPostCheck(s) ==
    LET t == tasks[s] IN
    /\ t.pc = "postcheck"
    /\ IF PostCheckCancelled(t)
       THEN /\ writer = "none"
            /\ status' = "Cancelled"
            /\ tasks' = [tasks EXCEPT ![s].pc = "exit"]
       ELSE /\ tasks' = [tasks EXCEPT ![s].pc = "swap"]
            /\ UNCHANGED status
    /\ UNCHANGED <<initialized, compatibility_mode, mode, store, progress,
                   error_code, cancel_flag, writer, search_handle, cancel_token>>
    /\ UNCHANGED nonEngineVars

\* a swap-in that adds the fuzzy records without switching the store over
SearchSwapStore_NoSetMode(t, readable) ==
    IF t.compat
    THEN add_results_batch(store, [i \in 1..Len(SeqFilter(t.results, readable)) |-> from_bytes((SeqFilter(t.results, readable))[i])])
    ELSE add_results_batch(store, [i \in 1..Len(t.results) |-> new_exact(t.results[i])])

\* the store contents run_search_task writes under the write lock
SearchSwapStore(t, readable) ==
    IF t.compat
    THEN add_results_batch(set_mode(store, "Fuzzy"),
                           [i \in 1..Len(SeqFilter(t.results, readable)) |-> from_bytes((SeqFilter(t.results, readable))[i])])
    ELSE add_results_batch(store, [i \in 1..Len(t.results) |-> new_exact(t.results[i])])

\* "Process results": the swap-in under SEARCH_ENGINE_MANAGER.write()
TaskSwapSearch(s) ==
    LET t == tasks[s] IN
    /\ t.pc = "swap"
    /\ t.kind = "search"
    /\ IF t.join_err \/ ~initialized
       THEN /\ tasks' = [tasks EXCEPT ![s].pc = "publish", ![s].success = FALSE]
            /\ UNCHANGED <<mode, store, progress, writer>>
       ELSE /\ writer = "none"
            /\ writer' = "task"
            /\ \E readable \in SUBSET Range(t.results) :
                 /\ (~t.compat) => readable = Range(t.results)
                 /\ store' = SearchSwapStore(t, readable)
            /\ mode' = IF t.compat THEN "Fuzzy" ELSE mode
            /\ progress' = 100
            /\ tasks' = [tasks EXCEPT ![s].pc = "release", ![s].success = TRUE]
    /\ UNCHANGED <<initialized, compatibility_mode, status, error_code, cancel_flag,
                   search_handle, cancel_token>>
    /\ UNCHANGED nonEngineVars

\* "Write lock is released here when `manager` goes out of scope."
TaskRelease(s) ==
    /\ tasks[s].pc = "release"
    /\ writer = "task"
    /\ writer' = "none"
    /\ tasks' = [tasks EXCEPT ![s].pc = "publish"]
    /\ UNCHANGED <<initialized, compatibility_mode, mode, store, status, progress,
                   error_code, cancel_flag, search_handle, cancel_token>>
    /\ UNCHANGED nonEngineVars

\* a publication that reports success only: a failed coordinator returns
\* without writing a status
TaskPublish_SuccessOnly(s) ==
    LET t == tasks[s] IN
    /\ t.pc = "publish"
    /\ writer = "none"
    /\ IF t.success
       THEN status' = "Completed" /\ UNCHANGED error_code
       ELSE UNCHANGED <<status, error_code>>
    /\ tasks' = [tasks EXCEPT ![s].pc = "exit"]
    /\ UNCHANGED <<initialized, compatibility_mode, mode, store, progress,
                   cancel_flag, writer, search_handle, cancel_token>>
    /\ UNCHANGED nonEngineVars

\* "Now set status AFTER the write lock is released."
TaskPublish(s) ==
    LET t == tasks[s] IN
    /\ t.pc = "publish"
    /\ writer = "none"
    /\ IF t.success
       THEN status' = "Completed" /\ UNCHANGED error_code
       ELSE status' = "Error" /\ error_code' = "InternalError"
    /\ tasks' = [tasks EXCEPT ![s].pc = "exit"]
    /\ UNCHANGED <<initialized, compatibility_mode, mode, store, progress,
                   cancel_flag, writer, search_handle, cancel_token>>
    /\ UNCHANGED nonEngineVars

\* the async block returns and the runtime marks the JoinHandle finished;
\* a task whose handle was already dropped leaves nothing behind
TaskExit(s) ==
    /\ tasks[s].pc = "exit"
    /\ tasks' = [tasks EXCEPT ![s] =
                    IF s = search_handle
                    THEN [FreeTask EXCEPT !.pc = "finished"]
                    ELSE FreeTask]
    /\ UNCHANGED <<initialized, compatibility_mode, mode, store, status, progress,
                   error_code, cancel_flag, writer, search_handle, cancel_token>>
    /\ UNCHANGED nonEngineVars

-----------------------------------------------------------------------------
(***************************************************************************)
(* start_refine_async and run_refine_task.                                 *)
(***************************************************************************)
RefineTask(typ, current) ==
    [FreeTask EXCEPT !.pc = "check", !.kind = "refine", !.typ = typ,
                     !.current_results = current, !.original_mode = mode,
                     !.total = Len(current)]

\* "No results to refine": Completed is written by the entry point itself
NothingToRefine ==
    /\ status' = "Completed"
    /\ UNCHANGED <<mode, store, progress, error_code, cancel_flag,
                   search_handle, cancel_token, tasks>>

StartRefineAsync ==
    /\ writer = "none"
    /\ writer' = "ui"
    /\ UNCHANGED <<initialized, compatibility_mode>>
    /\ IF ~initialized THEN Reject("NotInitialized")
       ELSE IF is_searching THEN Reject("AlreadySearching")
       ELSE IF store = <<>> THEN NothingToRefine
       ELSE \E typ \in ValueTypes :
               /\ ResetBufferSearching
               /\ Spawn(RefineTask(typ, [i \in 1..Len(store) |-> ToPair(store[i])]))
               /\ UNCHANGED <<mode, store>>
    /\ UNCHANGED nonEngineVars

\* addresses.iter().filter(|p| p.value_type == target_type)
FilterByType(pairs, typ) ==
    SeqFilter(pairs, {p \in Range(pairs) : p.value_type = typ})

\* a refine that reports the element after each matching one
refine_single_search_shifted(pairs, typ) ==
    {[i \in 1..Len(q) |-> ValuePair((q[i].addr + 1) % (MaxAddr + 1), typ)] :
        q \in {SeqFilter(FilterByType(pairs, typ), K) :
                  K \in SUBSET Range(FilterByType(pairs, typ))}}

\* the results refine_single_search_with_cancel can return: the pairs of the
\* target's type whose read succeeded and whose bytes matched, in input order
refine_single_search(pairs, typ) ==
    {SeqFilter(FilterByType(pairs, typ), K) : K \in SUBSET Range(FilterByType(pairs, typ))}

\* check_cancelled of the refine closures: only the buffer flag sets `cancelled`
RefineCancelSeen(t) == t.token \/ t.cancelled \/ cancel_flag # 0

RefineCancel(t) ==
    [t EXCEPT !.pc = "postcheck", !.results = <<>>,
              !.cancelled = t.cancelled \/ (~t.token /\ cancel_flag # 0)]

\* the cancellation check at the head of the blocking closure
TaskRefineCheck(s) ==
    LET t == tasks[s] IN
    /\ t.pc = "check"
    /\ t.kind \in {"refine", "fuzzy_refine"}
    /\ (t.token \/ t.cancelled) \/ writer = "none"
    /\ tasks' = [tasks EXCEPT ![s] =
                    IF RefineCancelSeen(t) THEN RefineCancel(t) ELSE [t EXCEPT !.pc = "scan"]]
    /\ UNCHANGED <<initialized, compatibility_mode, mode, store, status, progress,
                   error_code, cancel_flag, writer, search_handle, cancel_token>>
    /\ UNCHANGED nonEngineVars

\* a BPlusTreeSet of fuzzy items iterated: ascending, one item per address
RECURSIVE TreeOrder(_)
TreeOrder(pairs) ==
    IF pairs = <<>> THEN <<>>
    ELSE LET lo == CHOOSE i \in 1..Len(pairs) :
                     \A j \in 1..Len(pairs) :
                        \/ pairs[i].addr < pairs[j].addr
                        \/ (pairs[i].addr = pairs[j].addr /\ i <= j)
         IN <<pairs[lo]>> \o
            TreeOrder(SeqFilter(pairs, {p \in Range(pairs) : p.addr # pairs[lo].addr}))

\* the results fuzzy_refine_search can return
fuzzy_refine_search(pairs) ==
    {TreeOrder(SeqFilter(pairs, K)) : K \in SUBSET Range(pairs)}

\* the read loop, the check before matching, the matching and the final
\* progress update of the refine closures
TaskRefineScan(s) ==
    LET t == tasks[s] IN
    /\ t.pc = "scan"
    /\ t.kind \in {"refine", "fuzzy_refine"}
    /\ writer = "none"
    /\ \/ /\ RefineCancelSeen(t)
          /\ tasks' = [tasks EXCEPT ![s] = RefineCancel(t)]
          /\ UNCHANGED progress
       \/ /\ ~RefineCancelSeen(t)
          /\ \E res \in IF t.kind = "refine"
                        THEN refine_single_search(t.current_results, t.typ)
                        ELSE fuzzy_refine_search(t.current_results) :
                tasks' = [tasks EXCEPT ![s] = [t EXCEPT !.pc = "postcheck", !.results = res]]
          /\ progress' = IF t.kind = "refine"
                         THEN ProgressOf(Len(FilterByType(t.current_results, t.typ)), t.total)
                         ELSE ProgressOf(t.total, t.total)
       \/ \* .unwrap_or_else(|e| { error!("Refine search failed"); Vec::new() })
          /\ ~RefineCancelSeen(t)
          /\ tasks' = [tasks EXCEPT ![s] = [t EXCEPT !.pc = "postcheck", !.results = <<>>,
                                                     !.logged_error = TRUE]]
          /\ UNCHANGED progress
       \/ \* a worker panics: spawn_blocking returns a JoinError
          /\ tasks' = [tasks EXCEPT ![s] = [t EXCEPT !.pc = "postcheck", !.results = <<>>,
                                                     !.join_err = TRUE]]
          /\ UNCHANGED progress
    /\ UNCHANGED <<initialized, compatibility_mode, mode, store, status,
                   error_code, cancel_flag, writer, search_handle, cancel_token>>
    /\ UNCHANGED nonEngineVars

\* the store contents run_refine_task writes under the write lock
RefineSwapStore(t, readable) ==
    IF t.results = <<>> THEN set_mode(<<>>, t.original_mode)
    ELSE IF t.original_mode = "Exact"
    THEN add_results_batch(set_mode(<<>>, "Exact"), [i \in 1..Len(t.results) |-> new_exact(t.results[i])])
    ELSE add_results_batch(set_mode(<<>>, "Fuzzy"),
                           [i \in 1..Len(SeqFilter(t.results, readable)) |-> from_bytes((SeqFilter(t.results, readable))[i])])

TaskSwapRefine(s) ==
    LET t == tasks[s] IN
    /\ t.pc = "swap"
    /\ t.kind = "refine"
    /\ IF t.join_err \/ ~initialized
       THEN /\ tasks' = [tasks EXCEPT ![s].pc = "publish", ![s].success = FALSE]
            /\ UNCHANGED <<mode, store, progress, writer>>
       ELSE /\ writer = "none"
            /\ writer' = "task"
            /\ \E readable \in SUBSET Range(t.results) :
                 /\ (t.original_mode = "Exact") => readable = Range(t.results)
                 /\ store' = RefineSwapStore(t, readable)
            /\ mode' = t.original_mode
            /\ progress' = 100
            /\ tasks' = [tasks EXCEPT ![s].pc = "release", ![s].success = TRUE]
    /\ UNCHANGED <<initialized, compatibility_mode, status, error_code, cancel_flag,
                   search_handle, cancel_token>>
    /\ UNCHANGED nonEngineVars

-----------------------------------------------------------------------------
(***************************************************************************)
(* start_fuzzy_search_async and run_fuzzy_initial_task.                    *)
(***************************************************************************)
FuzzyTask(typ, regs) ==
    [FreeTask EXCEPT !.pc = IF regs = <<>> THEN "postcheck" ELSE "check",
                     !.kind = "fuzzy", !.regions = regs, !.typ = typ,
                     !.total = Len(regs)]

\* exact.address, exact.typ -> FuzzySearchResultItem::from_bytes
ExactToFuzzy(r) == [address |-> r.address, typ |-> r.typ, schema |-> "Fuzzy"]

\* "Since we already have results, just complete immediately"
KeepAsFuzzy(readable) ==
    /\ store' = add_results_batch(set_mode(<<>>, "Fuzzy"),
                                  [i \in 1..Len(SeqFilter(store, readable)) |-> ExactToFuzzy((SeqFilter(store, readable))[i])])
    /\ mode' = "Fuzzy"
    /\ status' = "Completed"
    /\ progress' = 100
    /\ error_code' = "None"
    /\ UNCHANGED <<cancel_flag, search_handle, cancel_token, tasks>>

\* the accepted submission: convert and complete, or clear and spawn
AcceptFuzzySearch(typ, regs, keep_results) ==
    IF keep_results /\ mode = "Exact" /\ store # <<>>
    THEN \E readable \in SUBSET Range(store) : KeepAsFuzzy(readable)
    ELSE /\ store' = set_mode(<<>>, "Fuzzy")
         /\ mode' = "Fuzzy"
         /\ ResetBufferSearching
         /\ Spawn(FuzzyTask(typ, regs))

StartFuzzySearchAsync ==
    /\ writer = "none"
    /\ writer' = "ui"
    /\ UNCHANGED <<initialized, compatibility_mode>>
    /\ IF ~initialized THEN Reject("NotInitialized")
       ELSE IF is_searching THEN Reject("AlreadySearching")
       ELSE \E typ \in ValueTypes, regs \in RegionLists, keep_results \in BOOLEAN :
               AcceptFuzzySearch(typ, regs, keep_results)
    /\ UNCHANGED nonEngineVars

\* the per-region result sets are stored one after the other
TaskSwapFuzzy(s) ==
    LET t == tasks[s] IN
    /\ t.pc = "swap"
    /\ t.kind = "fuzzy"
    /\ IF t.join_err \/ ~initialized
       THEN /\ tasks' = [tasks EXCEPT ![s].pc = "publish", ![s].success = FALSE]
            /\ UNCHANGED <<store, progress, writer>>
       ELSE /\ writer = "none"
            /\ writer' = "task"
            /\ store' = add_results_batch(store, [i \in 1..Len(t.results) |-> from_bytes(t.results[i])])
            /\ progress' = 100
            /\ tasks' = [tasks EXCEPT ![s].pc = "release", ![s].success = TRUE]
    /\ UNCHANGED <<initialized, compatibility_mode, mode, status, error_code, cancel_flag,
                   search_handle, cancel_token>>
    /\ UNCHANGED nonEngineVars

-----------------------------------------------------------------------------
(***************************************************************************)
(* start_fuzzy_refine_async and run_fuzzy_refine_task.                     *)
(***************************************************************************)
FuzzyRefineTask(current) ==
    [FreeTask EXCEPT !.pc = "check", !.kind = "fuzzy_refine",
                     !.current_results = current, !.original_mode = "Fuzzy",
                     !.total = Len(current)]

\* Err("Not in fuzzy mode"): returned without touching the buffer
NotInFuzzyMode ==
    UNCHANGED <<mode, store, status, progress, error_code, cancel_flag,
                search_handle, cancel_token, tasks>>

StartFuzzyRefineAsync ==
    /\ writer = "none"
    /\ writer' = "ui"
    /\ UNCHANGED <<initialized, compatibility_mode>>
    /\ IF ~initialized THEN Reject("NotInitialized")
       ELSE IF is_searching THEN Reject("AlreadySearching")
       ELSE IF mode # "Fuzzy" THEN NotInFuzzyMode
       ELSE IF store = <<>> THEN NothingToRefine
       ELSE /\ ResetBufferSearching
            /\ Spawn(FuzzyRefineTask([i \in 1..Len(store) |-> ToPair(store[i])]))
            /\ UNCHANGED <<mode, store>>
    /\ UNCHANGED nonEngineVars

\* FuzzySearchResultManager::replace_all
replace_all(st, items) == items

TaskSwapFuzzyRefine(s) ==
    LET t == tasks[s] IN
    /\ t.pc = "swap"
    /\ t.kind = "fuzzy_refine"
    /\ IF t.join_err \/ ~initialized
       THEN /\ tasks' = [tasks EXCEPT ![s].pc = "publish", ![s].success = FALSE]
            /\ UNCHANGED <<store, progress, writer>>
       ELSE /\ writer = "none"
            /\ writer' = "task"
            /\ \/ /\ store' = replace_all(store, [i \in 1..Len(t.results) |-> from_bytes(t.results[i])])
                  /\ progress' = 100
                  /\ tasks' = [tasks EXCEPT ![s].pc = "release", ![s].success = TRUE]
               \/ \* replace_all_fuzzy_results fails after the old contents are dropped
                  /\ store' = replace_all(store, <<>>)
                  /\ UNCHANGED progress
                  /\ tasks' = [tasks EXCEPT ![s].pc = "release", ![s].success = FALSE]
    /\ UNCHANGED <<initialized, compatibility_mode, mode, status, error_code, cancel_flag,
                   search_handle, cancel_token>>
    /\ UNCHANGED nonEngineVars

-----------------------------------------------------------------------------
(***************************************************************************)
(* Edits of the result list made by the UI between searches.               *)
(***************************************************************************)
\* remove_result(index)
RemoveResult(i) ==
    /\ writer = "none"
    /\ initialized
    /\ i \in 1..Len(store)
    /\ store' = remove_results_batch(store, {i})
    /\ UNCHANGED <<initialized, compatibility_mode, mode, status, progress, error_code,
                   cancel_flag, writer, search_handle, cancel_token, tasks>>
    /\ UNCHANGED nonEngineVars

\* remove_results_batch(indices)
RemoveResultsBatch(K) ==
    /\ writer = "none"
    /\ initialized
    /\ K # {}
    /\ store' = remove_results_batch(store, K)
    /\ UNCHANGED <<initialized, compatibility_mode, mode, status, progress, error_code,
                   cancel_flag, writer, search_handle, cancel_token, tasks>>
    /\ UNCHANGED nonEngineVars

\* keep_only_results(keep_indices)
KeepOnlyResults(K) ==
    /\ writer = "none"
    /\ initialized
    /\ store # <<>>
    /\ store' = remove_results_batch(store, (1..Len(store)) \ K)
    /\ UNCHANGED <<initialized, compatibility_mode, mode, status, progress, error_code,
                   cancel_flag, writer, search_handle, cancel_token, tasks>>
    /\ UNCHANGED nonEngineVars

-----------------------------------------------------------------------------
Next ==
    \/ JniInit
    \/ \E b \in BOOLEAN : SetCompatibilityMode(b)
    \/ RequestCancel
    \/ SetCancelFlag
    \/ UiReturn
    \/ StartSearchAsync
    \/ StartRefineAsync
    \/ StartFuzzySearchAsync
    \/ StartFuzzyRefineAsync
    \/ \E i \in 1..Len(store) : RemoveResult(i)
    \/ \E K \in SUBSET (1..Len(store)) : RemoveResultsBatch(K)
    \/ \E K \in SUBSET (1..Len(store)) : KeepOnlyResults(K)
    \/ \E s \in Slots : TaskSwapFuzzy(s)
    \/ \E s \in Slots : TaskSwapFuzzyRefine(s)
    \/ \E s \in Slots : TaskRegionCheck(s)
    \/ \E s \in Slots : TaskRefineCheck(s)
    \/ \E s \in Slots : TaskRefineScan(s)
    \/ \E s \in Slots : TaskSwapRefine(s)
    \/ \E s \in Slots : TaskRegionScan(s)
    \/ \E s \in Slots : TaskPostCheck(s)
    \/ \E s \in Slots : TaskSwapSearch(s)
    \/ \E s \in Slots : TaskRelease(s)
    \/ \E s \in Slots : TaskPublish(s)
    \/ \E s \in Slots : TaskExit(s)

Spec == Init /\ [][Next]_vars

\* a step of the search or refine coordinator in slot s
TaskStep(s) ==
    \/ TaskRegionCheck(s)
    \/ TaskRegionScan(s)
    \/ TaskRefineCheck(s)
    \/ TaskRefineScan(s)
    \/ TaskPostCheck(s)
    \/ TaskSwapSearch(s)
    \/ TaskSwapRefine(s)
    \/ TaskRelease(s)
    \/ TaskPublish(s)
    \/ TaskExit(s)

\* Submissions of searches and refines, cancellation, and the coordinators.
LiveNext ==
    \/ JniInit
    \/ RequestCancel
    \/ SetCancelFlag
    \/ UiReturn
    \/ StartSearchAsync
    \/ StartRefineAsync
    \/ \E s \in Slots : TaskStep(s)

\* The runtime keeps running a spawned coordinator, and a coordinator that
\* waits for the manager lock gets it once the JNI calls that hold it have
\* returned; every JNI entry point returns.
SpecLive ==
    /\ Init /\ [][LiveNext]_vars
    /\ WF_vars(UiReturn)
    /\ \A s \in Slots : SF_vars(TaskStep(s))

-----------------------------------------------------------------------------
(***************************************************************************)
(* Properties of the manager.                                              *)
(***************************************************************************)
\* a start_*_async entry point runs in this step
Submission == writer = "none" /\ writer' = "ui"

\* coordinator s takes its last publishing step in this step
Terminates(s) == tasks[s].pc \in {"postcheck", "publish"} /\ tasks'[s].pc = "exit"

SetOfAddresses(st) == {st[i].address : i \in 1..Len(st)}

\* C1: at most one search coordinator is alive at any time, and a
\* start_*_async submission made while an accepted search has not finished
\* is rejected with AlreadySearching and spawns no coordinator.
C1_SingleCoordinator ==
    /\ [](Cardinality(Alive) <= 1)
    /\ [][(Submission /\ initialized /\ Alive # {}) =>
            (status' = "Error" /\ error_code' = "AlreadySearching" /\ tasks' = tasks)]_vars

C1_RejectedWhileAlive ==
    /\ writer = "ui"
    /\ status = "Error"
    /\ error_code = "AlreadySearching"
    /\ Cardinality(Alive) = 1

\* C2: Completed is published only after the write lock on the result store
\* has been released, on every path that publishes Completed.
C2_CompletedAfterRelease ==
    [][(status' = "Completed" /\ status # "Completed") => writer' = "none"]_vars

\* C3: for a search over any (non-empty) region list or result list, if the
\* cancel flag of the status buffer is set while the search is running, the
\* final phase of that search is Cancelled.
C3_CancelFlagCancels ==
    [][\A s \in Slots :
          (Terminates(s) /\ tasks[s].total > 0 /\ cancel_flag # 0) => status' = "Cancelled"]_vars

\* C4 as stated: if request_cancel trips the token while the coordinator is
\* running, the final status of that search is Cancelled, never Completed.
C4_TokenAlwaysCancels ==
    [][\A s \in Slots : (Terminates(s) /\ tasks[s].token) => status' = "Cancelled"]_vars

\* C4 amended: if request_cancel trips the token no later than the
\* coordinator's post-scan cancellation check, the coordinator publishes
\* Cancelled as its final status and never swaps results in or publishes
\* Completed.
C4_TokenBeforePostCheckCancels ==
    [][\A s \in Slots :
          (tasks[s].pc = "postcheck" /\ tasks[s].token /\ tasks'[s].pc # "postcheck")
             => (tasks'[s].pc = "exit" /\ status' = "Cancelled")]_vars

C4_CancelledByToken ==
    \E s \in Slots : tasks[s].pc = "exit" /\ tasks[s].token /\ ~tasks[s].cancelled
                     /\ status = "Cancelled"

\* C6: iterating the result store yields addresses in non-decreasing order
\* after any sequence of searches, fuzzy scans, refines, keep-results
\* conversions and removals.
C6_OrderedIteration ==
    \A i \in 1..(Len(store) - 1) : store[i].address <= store[i + 1].address

\* C7: once a search, fuzzy scan or refine has reached Completed, no two
\* records of the store share the same (address, type).
C7_NoDuplicates ==
    status = "Completed" =>
        \A i, j \in 1..Len(store) :
            (i < j) => <<store[i].address, store[i].typ>> # <<store[j].address, store[j].typ>>

C9_RefineMonotone ==
    [][\A s \in Slots :
          /\ (tasks[s].kind = "none" /\ tasks'[s].kind \in {"refine", "fuzzy_refine"})
                => {p.addr : p \in Range(tasks'[s].current_results)} = SetOfAddresses(store)
          /\ (tasks[s].kind \in {"refine", "fuzzy_refine"}
                /\ tasks[s].pc = "swap" /\ tasks'[s].pc = "release")
                => SetOfAddresses(store') \subseteq
                      {p.addr : p \in Range(tasks[s].current_results)}]_vars

C9_RefinedToProperSubset ==
    \E s \in Slots :
        /\ tasks[s].kind \in {"refine", "fuzzy_refine"}
        /\ tasks[s].pc = "release"
        /\ store # <<>>
        /\ SetOfAddresses(store) # {p.addr : p \in Range(tasks[s].current_results)}

\* C10: when a search or scan fails, the phase becomes Error and error_code
\* carries the failure kind; a partially written result set is never
\* reported as a finished one.
C10_FailureIsReported ==
    [][\A s \in Slots :
          (Terminates(s) /\ (tasks[s].logged_error \/ tasks[s].join_err)
             /\ ~PostCheckCancelled(tasks[s]))
          => (status' = "Error" /\ error_code' # "None")]_vars

\* C11: every accepted submission that spawns a coordinator resets the
\* status buffer first: the coordinator starts with phase Searching,
\* progress 0, the cancel flag cleared and a fresh, untripped token, so a
\* cancel request left from an earlier search does not reach it.
C11_ResetOnAccept ==
    [][\A s \in Slots :
          (tasks[s].kind = "none" /\ tasks'[s].kind # "none")
          => /\ status' = "Searching"
             /\ progress' = 0
             /\ cancel_flag' = 0
             /\ ~tasks'[s].token
             /\ ~tasks'[s].cancelled
             /\ cancel_token' = s]_vars

\* a second submission (the store holds the first one's results) has just
\* been accepted: its coordinator has not taken a step yet
C11_FreshCoordinator ==
    \E s \in Slots :
        /\ tasks[s].kind = "refine"
        /\ tasks[s].pc = "check"
        /\ store # <<>>
        /\ writer = "ui"
        /\ status = "Searching" /\ progress = 0 /\ cancel_flag = 0

-----------------------------------------------------------------------------
(***************************************************************************)
(* Part 2: the per-chunk matchers.  One call of                            *)
(* search_in_chunks_with_status or search_pattern_in_buffer is applied to  *)
(* a chunk buffer, a page status bitmap and a target drawn from small sets.*)
(* Positions are 0-based offsets into the buffer, as in the code.          *)
(***************************************************************************)
\* log2 of the page size of the modelled target
PageShift == 1
\* pages in the longest chunk buffer
MaxPages == 3
\* pages per parallel scan grain
GrainPages == 2
\* largest byte value held by the modelled memory
MaxByte == 1
\* log2 of the largest element size
MaxElemShift == 1
\* longest pattern
MaxPatternLen == 2

PAGE_SIZE == 2 ^ PageShift
PAR_SCAN_GRAIN == GrainPages * PAGE_SIZE
Byte == 0..MaxByte

Min(a, b) == IF a <= b THEN a ELSE b
Max(a, b) == IF a >= b THEN a ELSE b

\* PageStatusBitmap::is_page_success
is_page_success(bm, page_idx) == page_idx \in DOMAIN bm /\ bm[page_idx]

\* first_aligned_pos
first_aligned_pos(base_addr, start_pos, align) ==
    LET rem == (base_addr + start_pos) % align
    IN IF rem = 0 THEN start_pos ELSE start_pos + (align - rem)

\* buffer[pos]
At(c, pos) == c.buffer[pos + 1]

SearchStart(c) == Max(c.buffer_addr, c.region_start)
SearchEnd(c) == Min(c.buffer_addr + Len(c.buffer), c.region_end)
InSearchRange(c, addr) == addr >= SearchStart(c) /\ addr < SearchEnd(c)

\* the addresses of a set of positions, pushed in ascending order
AddrsOf(c, P) == [i \in 1..Cardinality(P) |-> c.buffer_addr + SetToSeq(P)[i]]

\* single-byte fast path: memchr_iter over every successful page of the grain
SingleBytePath(c, rs, re) ==
    AddrsOf(c, {pos \in rs..(re - 1) :
                  /\ is_page_success(c.status, pos \div PAGE_SIZE)
                  /\ At(c, pos) = c.bytes[1]
                  /\ InSearchRange(c, c.buffer_addr + pos)})

\* first-byte fast path: memchr_iter for bytes[0], then the element checks
FirstBytePath(c, rs, re) ==
    LET element_size == Len(c.bytes)
        page_end(pos) == Min((pos \div PAGE_SIZE + 1) * PAGE_SIZE, re)
    IN AddrsOf(c, {pos \in rs..(re - 1) :
                     /\ is_page_success(c.status, pos \div PAGE_SIZE)
                     /\ At(c, pos) = c.bytes[1]
                     /\ pos + element_size <= page_end(pos)
                     /\ (c.buffer_addr + pos) % element_size = 0
                     /\ InSearchRange(c, c.buffer_addr + pos)
                     /\ SubSeq(c.buffer, pos + 1, pos + element_size) = c.bytes})

RECURSIVE GeneralLoop(_, _, _, _)
\* the `while pos < re` loop of the general stepping path
GeneralLoop(c, re, pos, current_page_end) ==
    LET element_size == Len(c.bytes)
        next_page == (pos \div PAGE_SIZE + 1) * PAGE_SIZE
        skip_to == first_aligned_pos(c.buffer_addr, next_page, element_size)
    IN IF pos >= re \/ pos + element_size > re THEN <<>>
       ELSE IF pos >= current_page_end /\ ~is_page_success(c.status, pos \div PAGE_SIZE)
       THEN GeneralLoop(c, re, skip_to, Min((skip_to \div PAGE_SIZE + 1) * PAGE_SIZE, re))
       ELSE (IF SubSeq(c.buffer, pos + 1, pos + element_size) = c.bytes
             THEN <<c.buffer_addr + pos>> ELSE <<>>)
            \o GeneralLoop(c, re, pos + element_size, current_page_end)

\* general stepping path
GeneralPath(c, rs, re) ==
    LET pos == first_aligned_pos(c.buffer_addr, rs, Len(c.bytes))
    IN GeneralLoop(c, re, pos, Min((pos \div PAGE_SIZE + 1) * PAGE_SIZE, re))

\* first bytes memchr is not used for
MemchrExcluded == {0, 255, 254}

\* the path a value search takes
ValuePath(c) ==
    IF c.fast_int /\ Len(c.bytes) = 1 THEN "single_byte"
    ELSE IF c.fast_int /\ Len(c.bytes) > 1 /\ Len(c.bytes) <= 8
            /\ c.bytes[1] \notin MemchrExcluded THEN "first_byte"
    ELSE "general"

\* the closure run for one grain
ScanGrain(c, rs, re) ==
    IF ValuePath(c) = "single_byte" THEN SingleBytePath(c, rs, re)
    ELSE IF ValuePath(c) = "first_byte" THEN FirstBytePath(c, rs, re)
    ELSE GeneralPath(c, rs, re)

RECURSIVE ScanRanges(_, _, _)
\* (scan_start_pos..scan_end_pos).step_by(PAR_SCAN_GRAIN), reduced by append
ScanRanges(c, s, scan_end_pos) ==
    IF s >= scan_end_pos THEN <<>>
    ELSE ScanGrain(c, s, Min(s + PAR_SCAN_GRAIN, scan_end_pos))
         \o ScanRanges(c, s + PAR_SCAN_GRAIN, scan_end_pos)

search_in_chunks_with_status(c) ==
    IF SearchStart(c) >= SearchEnd(c) THEN <<>>
    ELSE ScanRanges(c, SearchStart(c) - c.buffer_addr, SearchEnd(c) - c.buffer_addr)

\* data[i] & mask, for the masks of whole-byte pattern tokens
MaskByte(b, mask) == IF mask = 0 THEN 0 ELSE b

\* match_pattern_at(&buffer[start_pos..], pattern)
match_pattern_at(c, start_pos) ==
    /\ Len(c.buffer) - start_pos >= Len(c.pattern)
    /\ \A i \in 1..Len(c.pattern) :
          MaskByte(At(c, start_pos + i - 1), c.pattern[i].mask)
             = MaskByte(c.pattern[i].value, c.pattern[i].mask)

\* pattern.iter().enumerate().find(|(_, (_, mask))| *mask == 0xFF), 0-based
HasAnchor(c) == \E i \in 1..Len(c.pattern) : c.pattern[i].mask = 255
AnchorIdx(c) ==
    (CHOOSE i \in 1..Len(c.pattern) :
        /\ c.pattern[i].mask = 255
        /\ \A j \in 1..(i - 1) : c.pattern[j].mask # 255) - 1

\* anchor path: memchr_iter for the anchor byte over every successful page
AnchorPath(c, rs, re) ==
    LET anchor_idx == AnchorIdx(c)
        starts == {actual_pos - anchor_idx : actual_pos \in
                     {q \in rs..(Min(re, Len(c.buffer)) - 1) :
                        /\ is_page_success(c.status, q \div PAGE_SIZE)
                        /\ At(c, q) = c.pattern[anchor_idx + 1].value
                        /\ q >= anchor_idx}}
    IN AddrsOf(c, {start_pos \in starts :
                     /\ start_pos + Len(c.pattern) <= Len(c.buffer)
                     /\ InSearchRange(c, c.buffer_addr + start_pos)
                     /\ match_pattern_at(c, start_pos)})

\* all-wildcard path: every position of every successful page
WildcardPath(c, rs, re) ==
    AddrsOf(c, {pos \in rs..(re - 1) :
                  /\ is_page_success(c.status, pos \div PAGE_SIZE)
                  /\ pos + Len(c.pattern) <= Len(c.buffer)
                  /\ InSearchRange(c, c.buffer_addr + pos)
                  /\ match_pattern_at(c, pos)})

RECURSIVE PatternRanges(_, _, _)
\* (scan_start_pos..effective_end).step_by(PAR_SCAN_GRAIN), flat-mapped
PatternRanges(c, s, effective_end) ==
    IF s >= effective_end THEN <<>>
    ELSE (IF HasAnchor(c)
          THEN AnchorPath(c, s, Min(s + PAR_SCAN_GRAIN, effective_end))
          ELSE WildcardPath(c, s, Min(s + PAR_SCAN_GRAIN, effective_end)))
         \o PatternRanges(c, s + PAR_SCAN_GRAIN, effective_end)

search_pattern_in_buffer(c) ==
    LET pattern_len == Len(c.pattern)
        scan_start_pos == SearchStart(c) - c.buffer_addr
        scan_end_pos == SearchEnd(c) - c.buffer_addr
    IN IF Len(c.buffer) < pattern_len \/ pattern_len = 0 THEN <<>>
       ELSE IF SearchStart(c) >= SearchEnd(c) THEN <<>>
       ELSE IF scan_end_pos < pattern_len THEN <<>>
       ELSE IF scan_start_pos >= scan_end_pos - pattern_len + 1 THEN <<>>
       ELSE PatternRanges(c, scan_start_pos, scan_end_pos - pattern_len + 1)

-----------------------------------------------------------------------------
(***************************************************************************)
(* The calls made by the chunked read loops (search_region_single,         *)
(* search_region_pattern): the buffer starts on a page boundary, the       *)
(* region ends where the chunk ends, and at least one page was read.       *)
(***************************************************************************)
Buffers == UNION {[1..n -> Byte] : n \in 1..(MaxPages * PAGE_SIZE)}

Bitmaps(len) ==
    {bm \in [0..((len + PAGE_SIZE - 1) \div PAGE_SIZE - 1) -> BOOLEAN] :
        \E i \in DOMAIN bm : bm[i]}

ValueTargets ==
    {[fast_int |-> f, bytes |-> b] :
        f \in BOOLEAN, b \in UNION {[1..(2 ^ k) -> Byte] : k \in 0..MaxElemShift}}

PatternBytes == {[value |-> 0, mask |-> 0]} \cup {[value |-> v, mask |-> 255] : v \in Byte}
Patterns == UNION {[1..n -> PatternBytes] : n \in 1..MaxPatternLen}

ChunkCall(kind, buf, off, bm, fast_int, bytes, pattern) ==
    [kind |-> kind, buffer |-> buf, buffer_addr |-> PAGE_SIZE,
     region_start |-> PAGE_SIZE + off, region_end |-> PAGE_SIZE + Len(buf),
     status |-> bm, fast_int |-> fast_int, bytes |-> bytes, pattern |-> pattern]

MatcherInit ==
    /\ EngineInit
    /\ \E buf \in Buffers, off \in 0..(PAGE_SIZE - 1) :
          /\ off < Len(buf)
          /\ \E bm \in Bitmaps(Len(buf)) :
                \/ \E t \in ValueTargets :
                      m_in = ChunkCall("value", buf, off, bm, t.fast_int, t.bytes, <<>>)
                \/ \E pat \in Patterns :
                      m_in = ChunkCall("pattern", buf, off, bm, FALSE, <<>>, pat)
    /\ m_out = <<>>
    /\ m_pc = "ready"
    /\ FuzzyIdle
    /\ QueueIdle
    /\ ScanIdle
    /\ SmallIdle

SearchInChunksWithStatus ==
    /\ m_pc = "ready"
    /\ m_in.kind = "value"
    /\ m_out' = search_in_chunks_with_status(m_in)
    /\ m_pc' = "done"
    /\ UNCHANGED <<m_in, nonMatcherVars>>

SearchPatternInBuffer ==
    /\ m_pc = "ready"
    /\ m_in.kind = "pattern"
    /\ m_out' = search_pattern_in_buffer(m_in)
    /\ m_pc' = "done"
    /\ UNCHANGED <<m_in, nonMatcherVars>>

MatcherNext ==
    \/ SearchInChunksWithStatus
    \/ SearchPatternInBuffer

SpecMatcher == MatcherInit /\ [][MatcherNext]_vars

-----------------------------------------------------------------------------
(***************************************************************************)
(* Properties of the matchers.                                             *)
(***************************************************************************)
\* page of the chunk buffer that holds address addr
PageOf(c, addr) == (addr - c.buffer_addr) \div PAGE_SIZE

\* C5: if the gateway leaves the bitmap bit of page P clear, no match emitted
\* by any matcher path (single-byte, first-byte, general stepping, pattern
\* anchor, pattern wildcard) has its address in P.
C5_BitmapFidelity ==
    m_pc = "done" =>
        \A i \in 1..Len(m_out) : is_page_success(m_in.status, PageOf(m_in, m_out[i]))

\* the addresses a complete value scan of the chunk reports: element-aligned,
\* the element inside the search range, in a successfully read page, and
\* holding the target's bytes
ExpectedMatches(c) ==
    {a \in SearchStart(c)..(SearchEnd(c) - 1) :
        /\ a % Len(c.bytes) = 0
        /\ a + Len(c.bytes) <= SearchEnd(c)
        /\ is_page_success(c.status, PageOf(c, a))
        /\ SubSeq(c.buffer, a - c.buffer_addr + 1, a - c.buffer_addr + Len(c.bytes)) = c.bytes}

\* C33: the single-value scan is complete: whatever the alignment of the
\* region start, the matcher path and the grain split, every element-aligned
\* address of the search range that lies in a successfully read page and
\* whose bytes match is emitted exactly once.
C33_ScanComplete ==
    (m_pc = "done" /\ m_in.kind = "value") =>
        \A a \in ExpectedMatches(m_in) :
            Cardinality({i \in 1..Len(m_out) : m_out[i] = a}) = 1

\* a byte-by-byte scan: the full masked predicate checked at every start
\* position of the search range that leaves room for the pattern
RECURSIVE ByteByByteRanges(_, _, _)
ByteByByteRanges(c, s, effective_end) ==
    IF s >= effective_end THEN <<>>
    ELSE WildcardPath(c, s, Min(s + PAR_SCAN_GRAIN, effective_end))
         \o ByteByByteRanges(c, s + PAR_SCAN_GRAIN, effective_end)

ByteByByteScan(c) ==
    LET scan_start_pos == SearchStart(c) - c.buffer_addr
        scan_end_pos == SearchEnd(c) - c.buffer_addr
    IN IF scan_end_pos < Len(c.pattern) THEN <<>>
       ELSE ByteByByteRanges(c, scan_start_pos, scan_end_pos - Len(c.pattern) + 1)

\* C34: within a chunk, the anchor-byte pattern search reports exactly the
\* start addresses that a byte-by-byte scan checking the full masked
\* predicate at every start position reports.
C34_AnchorEqualsByteScan ==
    (m_pc = "done" /\ m_in.kind = "pattern" /\ HasAnchor(m_in))
        => Range(m_out) = Range(ByteByByteScan(m_in))


-----------------------------------------------------------------------------
(***************************************************************************)
(* Part 3: FuzzySearchResultManager, the two-tier store of fuzzy records.  *)
(* Records are small integers (0 is a zero-filled slot of the disk file).  *)
(* Indices are 0-based as in the code; element idx of a tier is seq[idx+1].*)
(* Every operation that touches the disk file takes io: whether the file   *)
(* operations of that call (open, set_len, map) succeed.                   *)
(***************************************************************************)
\* largest memory_buffer_capacity (in records)
MaxCapacity == 2
\* records added to the disk file by each set_len step
DiskChunk == 1
\* the store is grown by add_result only up to this many records
MaxTotal == 3
\* records are 1..MaxItem
MaxItem == 2
\* index lists hold indices 0..MaxIndex
MaxIndex == 3
\* longest index list
MaxIndexLen == 2

Items == 1..MaxItem
ItemLists == UNION {[1..n -> Items] : n \in 0..MaxTotal}
IndexLists == UNION {[1..n -> 0..MaxIndex] : n \in 0..MaxIndexLen}

\* Result<()> of a method together with the struct it leaves behind
Ok(m) == [ok |-> TRUE, m |-> m]
Err(m) == [ok |-> FALSE, m |-> m]

\* the content of a file region created by set_len
Zeroed(n) == [i \in 1..n |-> 0]

init_disk_file(m, io) ==
    IF io THEN Ok([m EXCEPT !.disk_file = TRUE, !.mmap = Zeroed(DiskChunk)])
    ELSE Err(m)

write_to_disk(m, item, io) ==
    LET r == IF ~m.disk_file THEN init_disk_file(m, io) ELSE Ok(m)
        m1 == r.m
        offset == m1.disk_count
        grown == [m1 EXCEPT !.mmap = @ \o Zeroed(DiskChunk)]
        put(mm) == [mm EXCEPT !.mmap[offset + 1] = item, !.disk_count = offset + 1]
    IN IF ~r.ok THEN r
       ELSE IF m1.mmap = <<>> THEN Ok(m1)
       ELSE IF offset + 1 > Len(m1.mmap)
            THEN IF io THEN Ok(put(grown)) ELSE Err([m1 EXCEPT !.mmap = <<>>])
            ELSE Ok(put(m1))

add_result(m, item, io) ==
    LET r == write_to_disk(m, item, io)
    IN IF m.memory_buffer_capacity # 0
          /\ Len(m.memory_buffer) < m.memory_buffer_capacity
       THEN Ok([m EXCEPT !.memory_buffer = Append(@, item), !.total_count = @ + 1])
       ELSE IF r.ok THEN Ok([r.m EXCEPT !.total_count = @ + 1]) ELSE r

get_results(m, start, size) ==
    LET end == Min(start + size, m.total_count)
        memory_len == Len(m.memory_buffer)
        mem_part == IF start < memory_len
                    THEN SubSeq(m.memory_buffer, start + 1, Min(end, memory_len))
                    ELSE <<>>
        disk_start == Max(start - memory_len, 0)
        disk_end == end - memory_len
        disk_part == IF end > memory_len /\ disk_end <= m.disk_count /\ m.mmap # <<>>
                     THEN SubSeq(m.mmap, disk_start + 1, disk_end)
                     ELSE <<>>
    IN IF start >= m.total_count THEN <<>> ELSE mem_part \o disk_part

get_all_results(m) == get_results(m, 0, m.total_count)

clear(m) == [m EXCEPT !.memory_buffer = <<>>, !.total_count = 0, !.disk_count = 0]

\* write_batch_to_disk_reuse: the items overwrite the file from offset 0
write_batch_to_disk_reuse(m, items, io) ==
    LET required == Len(items)
        extend == required > Len(m.mmap)
        new_size == ((required \div DiskChunk) + 1) * DiskChunk
        m1 == IF extend THEN [m EXCEPT !.mmap = @ \o Zeroed(new_size - Len(@))] ELSE m
        copied == [i \in 1..Len(m1.mmap) |->
                      IF i <= required THEN items[i] ELSE m1.mmap[i]]
    IN IF items = <<>> THEN Ok([m EXCEPT !.disk_count = 0])
       ELSE IF m.mmap = <<>> THEN Err(m)
       ELSE IF extend /\ ~io THEN Err([m EXCEPT !.mmap = <<>>])
       ELSE Ok([m1 EXCEPT !.mmap = copied, !.disk_count = required])

\* replace_all; in the mixed branch the disk part is never empty, because
\* total > memory_buffer_capacity there
fuzzy_replace_all(m, results, io) ==
    LET m0 == [m EXCEPT !.memory_buffer = <<>>, !.total_count = 0, !.disk_count = 0]
        no_disk == IF m0.disk_file
                   THEN [m0 EXCEPT !.mmap = <<>>, !.disk_file = FALSE] ELSE m0
        total == Len(results)
        split_point == m.memory_buffer_capacity
        m1 == IF split_point = 0 THEN m0
              ELSE [m0 EXCEPT !.memory_buffer = SubSeq(results, 1, split_point)]
        disk_part == SubSeq(results, split_point + 1, total)
        r0 == IF ~m1.disk_file THEN init_disk_file(m1, io) ELSE Ok(m1)
        r1 == write_batch_to_disk_reuse(r0.m, disk_part, io)
    IN IF results = <<>> THEN Ok(no_disk)
       ELSE IF split_point > 0 /\ total <= split_point
            THEN Ok([no_disk EXCEPT !.memory_buffer = results, !.total_count = total])
       ELSE IF ~r0.ok THEN r0
       ELSE IF ~r1.ok THEN r1
       ELSE Ok([r1.m EXCEPT !.total_count = total])

remove_disk_item(m, disk_index) ==
    IF disk_index >= m.disk_count THEN Err(m)
    ELSE IF m.mmap = <<>> THEN Ok(m)
    ELSE Ok([m EXCEPT
               !.mmap = [i \in 1..Len(@) |->
                            IF i > disk_index /\ i < m.disk_count THEN @[i + 1] ELSE @[i]],
               !.disk_count = @ - 1])

remove_result(m, index) ==
    LET memory_len == Len(m.memory_buffer)
        r == remove_disk_item(m, index - memory_len)
    IN IF index >= m.total_count THEN Err(m)
       ELSE IF index < memory_len
            THEN Ok([m EXCEPT !.memory_buffer = SubSeq(@, 1, index) \o SubSeq(@, index + 2, memory_len),
                              !.total_count = @ - 1])
       ELSE IF r.ok THEN Ok([r.m EXCEPT !.total_count = @ - 1]) ELSE r

RECURSIVE remove_memory_loop(_, _, _, _)
\* the read_pos loop of remove_memory_batch, ending with truncate(write_pos)
remove_memory_loop(buf, read_pos, write_pos, dels) ==
    IF read_pos >= Len(buf) THEN SubSeq(buf, 1, write_pos)
    ELSE IF dels # <<>> /\ read_pos = Head(dels)
         THEN remove_memory_loop(buf, read_pos + 1, write_pos, Tail(dels))
         ELSE remove_memory_loop([buf EXCEPT ![write_pos + 1] = buf[read_pos + 1]],
                                 read_pos + 1, write_pos + 1, dels)

remove_memory_batch_first_only(m, sorted_indices) ==
    IF sorted_indices = <<>> \/ m.memory_buffer = <<>>
       \/ sorted_indices[1] >= Len(m.memory_buffer)
    THEN m
    ELSE [m EXCEPT !.memory_buffer =
             remove_memory_loop(@, sorted_indices[1], sorted_indices[1], <<sorted_indices[1]>>)]

remove_memory_batch(m, sorted_indices) ==
    IF sorted_indices = <<>> \/ m.memory_buffer = <<>>
       \/ sorted_indices[1] >= Len(m.memory_buffer)
    THEN m
    ELSE [m EXCEPT !.memory_buffer =
             remove_memory_loop(@, sorted_indices[1], sorted_indices[1], sorted_indices)]

RECURSIVE remove_disk_loop(_, _, _, _, _)
\* the read_pos loop of remove_disk_batch, ending with disk_count = write_pos
remove_disk_loop(mm, disk_count, read_pos, write_pos, dels) ==
    IF read_pos >= disk_count THEN [mmap |-> mm, disk_count |-> write_pos]
    ELSE IF dels # <<>> /\ Head(dels) < disk_count /\ read_pos = Head(dels)
         THEN remove_disk_loop(mm, disk_count, read_pos + 1, write_pos, Tail(dels))
         ELSE remove_disk_loop([mm EXCEPT ![write_pos + 1] = mm[read_pos + 1]],
                               disk_count, read_pos + 1, write_pos + 1,
                               IF dels # <<>> /\ Head(dels) >= disk_count THEN <<>> ELSE dels)

remove_disk_batch(m, sorted_disk_indices) ==
    LET first_del == sorted_disk_indices[1]
        r == remove_disk_loop(m.mmap, m.disk_count, first_del, first_del, sorted_disk_indices)
    IN IF sorted_disk_indices = <<>> \/ m.disk_count = 0 \/ m.mmap = <<>> THEN m
       ELSE IF first_del >= m.disk_count THEN m
       ELSE [m EXCEPT !.mmap = r.mmap, !.disk_count = r.disk_count]

\* remove_results_batch: sort_unstable, dedup and retain leave the set of
\* listed indices below total_count, in ascending order
fuzzy_remove_results_batch(m, indices) ==
    LET kept == {indices[i] : i \in 1..Len(indices)} \cap (0..(m.total_count - 1))
        delete_count == Cardinality(kept)
        memory_len == Len(m.memory_buffer)
        memory_indices == SetToSeq({i \in kept : i < memory_len})
        adjusted_disk_indices == SetToSeq({i - memory_len : i \in {j \in kept : j >= memory_len}})
        m1 == IF memory_indices # <<>> THEN remove_memory_batch(m, memory_indices) ELSE m
        m2 == IF adjusted_disk_indices # <<>> THEN remove_disk_batch(m1, adjusted_disk_indices) ELSE m1
    IN IF kept = {} THEN m
       ELSE [m2 EXCEPT !.total_count = @ - delete_count]

RECURSIVE sort_unstable(_)
\* keep_indices.sort_unstable(): ascending, duplicates kept
sort_unstable(seq) ==
    IF seq = <<>> THEN <<>>
    ELSE LET least == CHOOSE x \in Range(seq) : \A y \in Range(seq) : x <= y
             at == CHOOSE i \in 1..Len(seq) : seq[i] = least
         IN <<least>> \o sort_unstable(SubSeq(seq, 1, at - 1) \o SubSeq(seq, at + 1, Len(seq)))

RECURSIVE kept_items(_, _)
\* the records read for the (sorted) keep list by the rebuild strategy
kept_items(m, keep_indices) ==
    IF keep_indices = <<>> THEN <<>>
    ELSE LET idx == Head(keep_indices)
             memory_len == Len(m.memory_buffer)
             here == IF idx >= m.total_count THEN <<>>
                     ELSE IF idx < memory_len THEN <<m.memory_buffer[idx + 1]>>
                     ELSE IF m.mmap # <<>> THEN <<m.mmap[idx - memory_len + 1]>>
                     ELSE <<>>
         IN here \o kept_items(m, Tail(keep_indices))

RECURSIVE add_results(_, _, _)
\* for item in kept_items { self.add_result(item)?; }
add_results(m, items, io) ==
    IF items = <<>> THEN Ok(m)
    ELSE LET r == add_result(m, Head(items), io)
         IN IF r.ok THEN add_results(r.m, Tail(items), io) ELSE r

keep_only_results(m, keep_indices, io) ==
    LET keep_count == Len(keep_indices)
        remove_count == Max(m.total_count - keep_count, 0)
        keep_set == Range(keep_indices)
        remove_indices == SetToSeq({i \in 0..(m.total_count - 1) : i \notin keep_set})
    IN IF keep_indices = <<>> THEN Ok(clear(m))
       ELSE IF remove_count = 0 THEN Ok(m)
       ELSE IF keep_count <= remove_count
            THEN add_results(clear(m), kept_items(m, sort_unstable(keep_indices)), io)
       ELSE Ok(fuzzy_remove_results_batch(m, remove_indices))

(***************************************************************************)
(* The store as a state machine: one action per public method.             *)
(***************************************************************************)
FuzzyInit ==
    /\ EngineInit
    /\ MatcherIdle
    /\ QueueIdle
    /\ ScanIdle
    /\ SmallIdle
    /\ \E capacity \in 0..MaxCapacity : fuzzy_manager = FuzzySearchResultManager(capacity)
    /\ fuzzy_call = NoFuzzyCall

\* a call returns: the struct it leaves behind and what it was
Returned(r, op, indices) ==
    /\ fuzzy_manager' = r.m
    /\ fuzzy_call' = [op |-> op, indices |-> indices, ok |-> r.ok]
    /\ UNCHANGED nonFuzzyVars

AddResult ==
    /\ fuzzy_manager.total_count < MaxTotal
    /\ \E item \in Items, io \in BOOLEAN :
          Returned(add_result(fuzzy_manager, item, io), "add_result", <<>>)

ReplaceAll ==
    \E results \in ItemLists, io \in BOOLEAN :
        Returned(fuzzy_replace_all(fuzzy_manager, results, io), "replace_all", <<>>)

FuzzyRemoveResult ==
    \E index \in 0..MaxIndex :
        Returned(remove_result(fuzzy_manager, index), "remove_result", <<index>>)

FuzzyRemoveResultsBatch ==
    \E indices \in IndexLists :
        Returned(Ok(fuzzy_remove_results_batch(fuzzy_manager, indices)),
                 "remove_results_batch", indices)

FuzzyKeepOnlyResults ==
    \E keep_indices \in IndexLists, io \in BOOLEAN :
        Returned(keep_only_results(fuzzy_manager, keep_indices, io),
                 "keep_only_results", keep_indices)

Clear == Returned(Ok(clear(fuzzy_manager)), "clear", <<>>)

FuzzyNext ==
    \/ AddResult
    \/ ReplaceAll
    \/ FuzzyRemoveResult
    \/ FuzzyRemoveResultsBatch
    \/ FuzzyKeepOnlyResults
    \/ Clear

SpecFuzzy == FuzzyInit /\ [][FuzzyNext]_vars

\* C12: total_count() equals the number of records in the memory tier plus
\* the number of records in the disk tier at every observable point.
C12_TotalCount ==
    fuzzy_manager.total_count = Len(fuzzy_manager.memory_buffer) + fuzzy_manager.disk_count

\* the records of seq at the (0-based) indices in S, in their order in seq
SelectIndices(seq, S) ==
    LET at == SetToSeq({i \in 0..(Len(seq) - 1) : i \in S})
    IN [k \in 1..Len(at) |-> seq[at[k] + 1]]

\* C14: for any index list (unsorted, with duplicates) remove_results_batch
\* removes exactly the records at the listed indices of the spliced
\* memory+disk sequence (as get_all_results returns it); the remaining
\* records keep their relative order.
C14_BatchRemoveExact ==
    [][fuzzy_call'.op = "remove_results_batch"
       => get_all_results(fuzzy_manager')
            = SelectIndices(get_all_results(fuzzy_manager),
                            (0..MaxIndex) \ Range(fuzzy_call'.indices))]_vars

\* a list that is not in ascending order has removed one record of each tier
C14_RemovedFromBothTiers ==
    /\ fuzzy_call.op = "remove_results_batch"
    /\ Len(fuzzy_call.indices) = 2
    /\ fuzzy_call.indices[1] > fuzzy_call.indices[2]
    /\ fuzzy_call.indices[2] < fuzzy_manager.memory_buffer_capacity
    /\ fuzzy_call.indices[1] >= fuzzy_manager.memory_buffer_capacity
    /\ Len(fuzzy_manager.memory_buffer) = fuzzy_manager.memory_buffer_capacity - 1
    /\ fuzzy_manager.disk_count = 1
    /\ fuzzy_manager.total_count = fuzzy_manager.memory_buffer_capacity

\* C13: keep_only_results(K) is the complement of batch remove: for any
\* index list K the resulting store equals the store obtained by removing
\* exactly the indices not in K, whichever strategy is chosen.
C13_KeepIsComplementOfRemove ==
    [][(fuzzy_call'.op = "keep_only_results" /\ fuzzy_call'.ok)
       => get_all_results(fuzzy_manager')
            = get_all_results(fuzzy_remove_results_batch(fuzzy_manager,
                  SetToSeq((0..MaxIndex) \ Range(fuzzy_call'.indices))))]_vars

-----------------------------------------------------------------------------
(***************************************************************************)
(* Part 4: MapQueue.  Elements are small integers (0 is a zero-filled      *)
(* slot of a fresh file); element idx of the mapping is data[idx + 1].     *)
(* A backing file is named by the FILE_COUNTER value it was created with.  *)
(* io is the outcome of the file operations of one reserve call:           *)
(* "ok", "create_failed" (create_temp_file fails, no file is left) or      *)
(* "map_failed" (set_len or map_mut fails after the file was created).     *)
(***************************************************************************)
\* the queue is grown only up to this many elements
MaxQueueLen == 3
\* elements are 1..MaxElem
MaxElem == 2
\* backing files created in one run
MaxFiles == 4
\* capacity of the first backing file (1024 elements in the code)
FirstCapacity == 1

IoOutcomes == {"ok", "create_failed", "map_failed"}

grow_capacity(q, min_capacity) ==
    Max(IF q.capacity = 0 THEN FirstCapacity ELSE q.capacity + q.capacity \div 2,
        min_capacity)

reserve_short_copy(q, files, counter, new_capacity, io) ==
    LET copied == [i \in 1..new_capacity |-> IF i < q.len THEN q.data[i] ELSE 0]
    IN IF new_capacity <= q.capacity
       THEN [ok |-> TRUE, q |-> q, files |-> files, counter |-> counter]
       ELSE IF io = "create_failed"
       THEN [ok |-> FALSE, q |-> q, files |-> files, counter |-> counter]
       ELSE IF io = "map_failed"
       THEN [ok |-> FALSE, q |-> q, files |-> files \cup {counter}, counter |-> counter + 1]
       ELSE [ok |-> TRUE,
             q |-> [q EXCEPT !.file_path = <<counter>>, !.data = copied,
                             !.capacity = new_capacity],
             files |-> (files \ Range(q.file_path)) \cup {counter},
             counter |-> counter + 1]

\* reserve, with create_temp_file and cleanup_old_file
reserve(q, files, counter, new_capacity, io) ==
    LET copied == [i \in 1..new_capacity |-> IF i <= q.len THEN q.data[i] ELSE 0]
    IN IF new_capacity <= q.capacity
       THEN [ok |-> TRUE, q |-> q, files |-> files, counter |-> counter]
       ELSE IF io = "create_failed"
       THEN [ok |-> FALSE, q |-> q, files |-> files, counter |-> counter]
       ELSE IF io = "map_failed"
       THEN [ok |-> FALSE, q |-> q, files |-> files \cup {counter}, counter |-> counter + 1]
       ELSE [ok |-> TRUE,
             q |-> [q EXCEPT !.file_path = <<counter>>, !.data = copied,
                             !.capacity = new_capacity],
             files |-> (files \ Range(q.file_path)) \cup {counter},
             counter |-> counter + 1]

\* as_slice: the elements an iteration of the queue yields
as_slice(q) == SubSeq(q.data, 1, q.len)

QueueInit ==
    /\ EngineInit
    /\ MatcherIdle
    /\ FuzzyIdle
    /\ QueueIdle
    /\ ScanIdle
    /\ SmallIdle

\* a method that may reserve returns: on Err nothing but the cache
\* directory has changed
QueueReturned(r, q_new, vec_new) ==
    /\ map_queue' = IF r.ok THEN q_new ELSE r.q
    /\ plain_vec' = IF r.ok THEN vec_new ELSE plain_vec
    /\ cache_files' = r.files
    /\ file_counter' = r.counter
    /\ UNCHANGED nonQueueVars

Push ==
    /\ ~map_queue.dropped /\ map_queue.len < MaxQueueLen /\ file_counter < MaxFiles
    /\ \E value \in 1..MaxElem, io \in IoOutcomes :
          LET r == reserve(map_queue, cache_files, file_counter,
                           IF map_queue.len = map_queue.capacity
                           THEN grow_capacity(map_queue, map_queue.len + 1) ELSE 0, io)
          IN QueueReturned(r, [r.q EXCEPT !.data[r.q.len + 1] = value, !.len = @ + 1],
                           Append(plain_vec, value))

ExtendFromSlice ==
    /\ ~map_queue.dropped /\ file_counter < MaxFiles
    /\ \E values \in UNION {[1..n -> 1..MaxElem] : n \in 0..2}, io \in IoOutcomes :
          LET new_len == map_queue.len + Len(values)
              r == reserve(map_queue, cache_files, file_counter,
                           IF values # <<>> /\ new_len > map_queue.capacity
                           THEN grow_capacity(map_queue, new_len) ELSE 0, io)
          IN /\ new_len <= MaxQueueLen
             /\ QueueReturned(r,
                   [r.q EXCEPT !.data = [i \in 1..Len(@) |->
                                            IF i > r.q.len /\ i <= new_len
                                            THEN values[i - r.q.len] ELSE @[i]],
                               !.len = new_len],
                   plain_vec \o values)

Pop ==
    /\ ~map_queue.dropped
    /\ map_queue.len # 0
    /\ map_queue' = [map_queue EXCEPT !.len = @ - 1]
    /\ plain_vec' = SubSeq(plain_vec, 1, Len(plain_vec) - 1)
    /\ UNCHANGED <<cache_files, file_counter, nonQueueVars>>

Truncate ==
    /\ ~map_queue.dropped
    /\ \E new_len \in 0..MaxQueueLen :
          /\ map_queue' = IF new_len < map_queue.len
                          THEN [map_queue EXCEPT !.len = new_len] ELSE map_queue
          /\ plain_vec' = SubSeq(plain_vec, 1, Min(new_len, Len(plain_vec)))
    /\ UNCHANGED <<cache_files, file_counter, nonQueueVars>>

Resize ==
    /\ ~map_queue.dropped /\ file_counter < MaxFiles
    /\ \E new_len \in 0..MaxQueueLen, value \in 1..MaxElem, io \in IoOutcomes :
          LET r == reserve(map_queue, cache_files, file_counter,
                           IF new_len > map_queue.capacity
                           THEN grow_capacity(map_queue, new_len) ELSE 0, io)
          IN QueueReturned(r,
                [r.q EXCEPT !.data = [i \in 1..Len(@) |->
                                         IF i > r.q.len /\ i <= new_len THEN value ELSE @[i]],
                            !.len = new_len],
                [i \in 1..new_len |-> IF i <= Len(plain_vec) THEN plain_vec[i] ELSE value])

Reserve ==
    /\ ~map_queue.dropped /\ file_counter < MaxFiles
    /\ \E new_capacity \in 0..(MaxQueueLen + 1), io \in IoOutcomes :
          LET r == reserve(map_queue, cache_files, file_counter, new_capacity, io)
          IN QueueReturned(r, r.q, plain_vec)

\* Drop for MapQueue: unmap, then remove the file at file_path
Drop ==
    /\ ~map_queue.dropped
    /\ map_queue' = [map_queue EXCEPT !.dropped = TRUE, !.data = <<>>]
    /\ cache_files' = cache_files \ Range(map_queue.file_path)
    /\ UNCHANGED <<file_counter, plain_vec, nonQueueVars>>

QueueNext ==
    \/ Push
    \/ ExtendFromSlice
    \/ Pop
    \/ Truncate
    \/ Resize
    \/ Reserve
    \/ Drop

SpecQueue == QueueInit /\ [][QueueNext]_vars

\* C15: after any sequence of push, extend_from_slice, pop, truncate, resize
\* and reserve the queue's length and the element at every index equal
\* those of a plain in-memory vector given the same operations.
C15_QueueEqualsVec ==
    ~map_queue.dropped => (map_queue.len = Len(plain_vec) /\ as_slice(map_queue) = plain_vec)

\* the queue has moved to its third backing file with elements in it
C15_GrownTwice ==
    /\ ~map_queue.dropped
    /\ map_queue.file_path = <<2>>
    /\ cache_files = {2}
    /\ map_queue.len >= 2

\* C16: every backing file a MapQueue creates is unlinked: after drop no
\* file created for the queue remains, whatever the operations were,
\* including a failed growth attempt.
C16_NoFileAfterDrop == map_queue.dropped => cache_files = {}

-----------------------------------------------------------------------------
(***************************************************************************)
(* Part 5.  The pointer-chain scanner.                                     *)
(*                                                                         *)
(* Addresses are 0..MaxPtrAddr.  The pointer library is a memory image     *)
(* that holds, at some addresses, a value that is itself an address.       *)
(* Levels count from the target: level 0 is the target itself, level L     *)
(* holds the pointers whose value lands within the offset window below a   *)
(* level L-1 address.  dirs is indexed from 1 here: dirs[L + 1] is the     *)
(* code's dirs[L]; start and end keep the code's 0-based values.           *)
(***************************************************************************)
\* highest address of the scanned address space
MaxPtrAddr == 3
\* deepest chain a scan may ask for
MaxDepth == 2
\* widest offset window a scan may ask for
MaxOffset == 1
\* most static modules handed to a scan
MaxModules == 2
\* candidates kept per level (5,000,000 in the code)
MAX_CANDIDATES_PER_LAYER == 2
\* chains written to the output (the 100000 run_scan_task passes)
MaxChainsWritten == 2

PtrAddr == 0..MaxPtrAddr
\* what a memory image holds where there is no pointer
NoPtr == MaxPtrAddr + 1
\* memory images: what scan_all_pointers can collect
PointerLibs == [PtrAddr -> PtrAddr \cup {NoPtr}]
ModuleNames == {"libA", "libB"}
\* the regions of the target's map: one of two slots, then single slots
ScanRegions ==
    {[start |-> 0, end |-> 2]} \cup {[start |-> a, end |-> a + 1] : a \in 2..MaxPtrAddr}

\* run_scan_task: the library converted to PointerData, sorted by address
GlobalPointers(lib) ==
    LET addrs == SetToSeq({a \in PtrAddr : lib[a] # NoPtr})
    IN [i \in 1..Len(addrs) |-> [address |-> addrs[i], value |-> lib[addrs[i]]]]

\* jni_start_pointer_scan: the static regions in map order, each with its
\* per-name index and the base address of the first module of its name
StaticModules(regions) ==
    [i \in 1..Len(regions) |->
        LET same == {j \in 1..i : regions[j].name = regions[i].name}
            first == CHOOSE j \in same : \A k \in same : j <= k
        IN [name |-> regions[i].name,
            base_address |-> regions[i].start,
            end_address |-> regions[i].end,
            index |-> Cardinality(same) - 1,
            first_module_base_addr |-> regions[first].start]]

\* VmAreaData::from_static
from_static(vma) ==
    [start |-> vma.base_address, end |-> vma.end_address,
     name |-> vma.name, count |-> vma.index]

\* PointerDir::from_data
from_data(p) == [address |-> p.address, value |-> p.value, start |-> 0, end |-> 0]

\* slice::partition_point over a slice sorted by address, for the
\* predicate "address < bound": the number of entries below bound
partition_point(prev, bound) ==
    Cardinality({i \in 1..Len(prev) : prev[i].address < bound})

\* BfsV2Scanner::search_pointer
search_pointer(global_pointers, prev_dirs, offset) ==
    LET hit(p) ==
            LET lower == partition_point(prev_dirs, p.value)
            IN /\ lower < Len(prev_dirs)
               /\ prev_dirs[lower + 1].address >= p.value
               /\ prev_dirs[lower + 1].address - p.value <= offset
    IN SelectSeq(global_pointers, hit)

\* BfsV2Scanner::filter_pointer_ranges: the ranges it pushes and the
\* candidates it pushes to dirs[level]
filter_pointer_ranges(static_modules, curr, level) ==
    LET inside(p, m) == p.address >= m.base_address /\ p.address < m.end_address
        module_pointers(k) ==
            LET in_k(p) == inside(p, static_modules[k]) IN SelectSeq(curr, in_k)
        nonempty(k) == module_pointers(k) # <<>>
        ks == SelectSeq([k \in 1..Len(static_modules) |-> k], nonempty)
        unmatched(p) == \A k \in 1..Len(static_modules) : ~inside(p, static_modules[k])
        rest == SelectSeq(curr, unmatched)
    IN [ranges |-> [i \in 1..Len(ks) |->
                      [level |-> level,
                       vma |-> from_static(static_modules[ks[i]]),
                       results |-> [j \in 1..Len(module_pointers(ks[i])) |->
                                       from_data(module_pointers(ks[i])[j])]]],
        dirs |-> [j \in 1..Len(rest) |-> from_data(rest[j])]]

\* mutant of create_assoc_dir_index: the window reaches one address too far
create_assoc_dir_index_wide(prev, curr, offset) ==
    [j \in 1..Len(curr) |->
        [curr[j] EXCEPT !.start = partition_point(prev, curr[j].value),
                        !.end = partition_point(prev, curr[j].value + offset + 2)]]

\* BfsV2Scanner::create_assoc_dir_index (create_assoc_range_index is the
\* same loop over a range's results)
create_assoc_dir_index(prev, curr, offset) ==
    [j \in 1..Len(curr) |->
        [curr[j] EXCEPT !.start = partition_point(prev, curr[j].value),
                        !.end = partition_point(prev, curr[j].value + offset + 1)]]

\* a level that keeps every candidate
truncate_layer_none(indexed) == indexed

\* scan_to_file: the candidates of a level are cut to MAX_CANDIDATES_PER_LAYER
truncate_layer(indexed) == SubSeq(indexed, 1, Min(Len(indexed), MAX_CANDIDATES_PER_LAYER))

\* scan_to_file, the level loop for level > 0; `reported` is the last level
\* the loop called progress_callback for, `broke` whether it left by break
RECURSIVE bfs_levels(_, _, _, _, _, _, _)
bfs_levels(global_pointers, static_modules, depth, offset, level, dirs, ranges) ==
    IF level > depth
    THEN [dirs |-> dirs, ranges |-> ranges, reported |-> level - 1, broke |-> FALSE]
    ELSE LET curr == search_pointer(global_pointers, dirs[level], offset)
             f == filter_pointer_ranges(static_modules, curr, level)
             indexed == create_assoc_dir_index(dirs[level], f.dirs, offset)
             kept == truncate_layer(indexed)
         IN IF curr = <<>>
            THEN [dirs |-> dirs, ranges |-> ranges, reported |-> level - 1, broke |-> TRUE]
            ELSE bfs_levels(global_pointers, static_modules, depth, offset, level + 1,
                            [dirs EXCEPT ![level + 1] = kept], ranges \o f.ranges)

\* write_chains_recursive and collect_and_write_chains: the offset lists
\* of the chains written below dir, at most max_chains of them
RECURSIVE collect_and_write_chains(_, _, _, _, _)
collect_and_write_chains(dirs, dir, level, offsets, max_chains) ==
    IF max_chains = 0 THEN <<>>
    ELSE IF level = 0 THEN <<offsets>>
    ELSE LET prev_slice == dirs[level]
             RECURSIVE children(_, _)
             children(i, written) ==
                 IF i >= dir.end \/ Len(written) >= max_chains \/ i >= Len(prev_slice)
                 THEN written
                 ELSE LET child == prev_slice[i + 1]
                          child_offset == child.address - dir.value
                      IN children(i + 1, written \o collect_and_write_chains(
                             dirs, child, level - 1, Append(offsets, child_offset),
                             max_chains - Len(written)))
         IN children(dir.start, <<>>)

\* mutant of count_chains_from_dir: every root counts as a single chain
count_chains_from_dir_one(dir, dirs, level) == 1

\* BfsV2Scanner::count_chains_from_dir
RECURSIVE count_chains_from_dir(_, _, _)
count_chains_from_dir(dir, dirs, level) ==
    IF level = 0 THEN 1
    ELSE LET prev_slice == dirs[level]
             RECURSIVE children(_, _)
             children(i, count) ==
                 IF i >= dir.end \/ i >= Len(prev_slice) THEN count
                 ELSE children(i + 1, count + count_chains_from_dir(prev_slice[i + 1], dirs, level - 1))
         IN children(dir.start, 0)

\* scan_to_file, the emission loop over the roots of all ranges
RECURSIVE write_roots(_, _, _, _, _)
write_roots(dirs, roots, max_chains, written, total_count) ==
    IF roots = <<>> THEN [chains |-> written, total_count |-> total_count]
    ELSE LET range == Head(roots).range
             root_dir == Head(roots).dir
             counted == count_chains_from_dir(root_dir, dirs, range.level)
             offs == collect_and_write_chains(dirs, root_dir, range.level, <<>>,
                                              max_chains - Len(written))
             lines == [i \in 1..Len(offs) |->
                         [module_name |-> range.vma.name,
                          module_index |-> range.vma.count,
                          base_offset |-> root_dir.address - range.vma.start,
                          offsets |-> offs[i],
                          \* not printed: the address the line was emitted for
                          root |-> root_dir.address]]
             extra == IF Len(written) + Len(offs) >= max_chains /\ counted > Len(offs)
                      THEN counted - Len(offs) ELSE 0
         IN IF Len(written) >= max_chains
            THEN write_roots(dirs, Tail(roots), max_chains, written, total_count + counted)
            ELSE write_roots(dirs, Tail(roots), max_chains, written \o lines,
                             total_count + Len(offs) + extra)

\* the roots in emission order: range by range, result by result
RECURSIVE RootsOf(_)
RootsOf(ranges) ==
    IF ranges = <<>> THEN <<>>
    ELSE [j \in 1..Len(Head(ranges).results) |->
             [range |-> Head(ranges), dir |-> Head(ranges).results[j]]]
         \o RootsOf(Tail(ranges))

\* scan_to_file, the two stages before the emission: the level loop from the
\* target and the index of the roots found in static modules
scan_levels(global_pointers, static_modules, target, depth, offset) ==
    LET f0 == filter_pointer_ranges(static_modules, <<[address |-> target, value |-> 0]>>, 0)
        dirs0 == [l \in 1..(depth + 1) |-> IF l = 1 THEN f0.dirs ELSE <<>>]
        first_range_idx == Len(f0.ranges)
        bfs == bfs_levels(global_pointers, static_modules, depth, offset, 1, dirs0, f0.ranges)
    IN  [bfs EXCEPT !.ranges =
           [idx \in 1..Len(bfs.ranges) |->
              IF idx > first_range_idx /\ bfs.ranges[idx].level > 0
              THEN [bfs.ranges[idx] EXCEPT !.results =
                      create_assoc_dir_index(bfs.dirs[bfs.ranges[idx].level], @, offset)]
              ELSE bfs.ranges[idx]]]

\* BfsV2Scanner::scan_to_file: the chain lines written, the count returned
\* and the last progress report
scan_to_file(global_pointers, static_modules, target, depth, offset, max_chains) ==
    LET bfs == scan_levels(global_pointers, static_modules, target, depth, offset)
        ranges == bfs.ranges
        w == write_roots(bfs.dirs, RootsOf(ranges), max_chains, <<>>, 0)
    IN [chains |-> w.chains, total_count |-> w.total_count,
        \* the arguments of the last progress_callback: the one of the level
        \* loop when no range was found, else the final report
        callback |-> IF ranges = <<>>
                     THEN [current_depth |-> bfs.reported, chains_found |-> 0]
                     ELSE [current_depth |-> depth, chains_found |-> w.total_count]]

(***************************************************************************)
(* PointerScanManager and the coordinator run_scan_task.  The two          *)
(* blocking phases are one step each; the coordinator's cancellation       *)
(* checks and its publications under the manager's write lock are steps    *)
(* of their own, so a cancellation request can fall between any two.       *)
(***************************************************************************)
Targets == {MaxPtrAddr - 1, MaxPtrAddr}

\* the region lists a caller can pass: none, or the whole map with at
\* most MaxModules regions flagged static and named
ScanRegionLists ==
    {<<>>} \cup
    {[i \in 1..Cardinality(ScanRegions) |->
        LET r == CHOOSE x \in ScanRegions : x.start = SetToSeq({y.start : y \in ScanRegions})[i]
        IN [start |-> r.start, end |-> r.end, is_static |-> r \in S,
            name |-> IF r \in S THEN nm[r] ELSE "anon"]] :
     nm \in [ScanRegions -> ModuleNames],
     S \in {X \in SUBSET ScanRegions : Cardinality(X) <= MaxModules}}

\* PointerScanManager::is_scanning
is_scanning == scan_manager.scan_handle /\ scan_task.pc # "done"

\* the coordinator holds the manager's write lock between the writes of
\* "Store results"
ScanWriteLocked == scan_task.pc \in {"write_progress", "write_chains"}

\* jni_start_pointer_scan and PointerScanManager::start_scan_async
StartScanAsync ==
    /\ ~ScanWriteLocked
    /\ IF is_scanning
       THEN /\ scan_manager' = [scan_manager EXCEPT !.last_error = "AlreadyScanning"]
            /\ UNCHANGED <<scan_buffer, scan_task>>
       ELSE \E regions \in ScanRegionLists :
               IF regions = <<>>
               THEN /\ scan_manager' = [scan_manager EXCEPT !.last_error = "InvalidAddress"]
                    /\ UNCHANGED <<scan_buffer, scan_task>>
               ELSE \E target \in Targets, depth \in 1..MaxDepth, offset \in 0..MaxOffset :
                       LET is_static(r) == r.is_static
                       IN /\ scan_manager' = [current_phase |-> "ScanningPointers",
                                              last_error |-> "None", scan_result |-> <<>>,
                                              scan_handle |-> TRUE, cancel_token |-> "live"]
                          /\ scan_buffer' = [phase |-> "ScanningPointers",
                                             error_code |-> "None",
                                             progress |-> 0, chains_found |-> 0,
                                             cancel_flag |-> 0]
                          /\ scan_task' =
                                [pc |-> "phase1", target_address |-> target,
                                 max_depth |-> depth, max_offset |-> offset,
                                 static_modules |-> StaticModules(SelectSeq(regions, is_static)),
                                 pointer_lib_result |-> "none", pointer_lib |-> <<>>,
                                 scan_result |-> "none", output |-> <<>>,
                                 total_count |-> 0]
    /\ UNCHANGED nonScanVars

\* PointerScanManager::request_cancel
ScanRequestCancel ==
    /\ ~ScanWriteLocked
    /\ scan_manager.cancel_token # "none"
    /\ scan_manager' = [scan_manager EXCEPT !.cancel_token = "cancelled"]
    /\ UNCHANGED <<scan_buffer, scan_task, nonScanVars>>

\* the UI writes the cancel_flag field of the status buffer to stop the
\* scan it sees running
ScanSetCancelFlag ==
    /\ scan_buffer.phase \in {"ScanningPointers", "BuildingChains"}
    /\ scan_buffer.cancel_flag = 0
    /\ scan_buffer' = [scan_buffer EXCEPT !.cancel_flag = 1]
    /\ UNCHANGED <<scan_manager, scan_task, nonScanVars>>

\* SharedBuffer::update_building_progress: the progress percentage
building_progress(current_depth, max_depth) ==
    IF max_depth > 0 THEN 50 + (current_depth * 50) \div max_depth ELSE 50

\* scanner::scan_all_pointers returns a library, or an error when a gateway
\* error left it without any pointer
ScanAllPointersResults == {"ok", "err"}

\* run_scan_task, Phase 1: the blocking task returns what scan_all_pointers
\* returned, or its panic
TaskPhase1 ==
    /\ scan_task.pc = "phase1"
    /\ \E outcome \in ScanAllPointersResults \cup {"panic"} :
          scan_task' = [scan_task EXCEPT !.pc = "check1", !.pointer_lib_result = outcome]
    /\ UNCHANGED <<scan_manager, scan_buffer, nonScanVars>>

\* mutant of TaskCheck1: cancellation is not looked at between the phases
TaskCheck1_NoCancelCheck ==
    /\ scan_task.pc = "check1"
    /\ IF scan_task.pointer_lib_result = "ok"
       THEN /\ scan_task' = [scan_task EXCEPT !.pc = "building"]
            /\ UNCHANGED <<scan_manager, scan_buffer>>
       ELSE LET code == IF scan_task.pointer_lib_result = "err"
                        THEN "MemoryReadFailed" ELSE "InternalError"
            IN /\ scan_manager' = [scan_manager EXCEPT !.current_phase = "Error",
                                                        !.last_error = code]
               /\ scan_buffer' = [scan_buffer EXCEPT !.phase = "Error", !.error_code = code]
               /\ scan_task' = [scan_task EXCEPT !.pc = "done"]
    /\ UNCHANGED nonScanVars

\* mutant of TaskCheck1: the result is matched before cancellation is looked at
TaskCheck1_ResultFirst ==
    /\ scan_task.pc = "check1"
    /\ IF scan_task.pointer_lib_result = "ok" /\ scan_manager.cancel_token = "cancelled"
       THEN /\ scan_manager' = [scan_manager EXCEPT !.current_phase = "Cancelled"]
            /\ scan_buffer' = [scan_buffer EXCEPT !.phase = "Cancelled"]
            /\ scan_task' = [scan_task EXCEPT !.pc = "done"]
       ELSE IF scan_task.pointer_lib_result = "ok"
       THEN /\ scan_task' = [scan_task EXCEPT !.pc = "building"]
            /\ UNCHANGED <<scan_manager, scan_buffer>>
       ELSE LET code == IF scan_task.pointer_lib_result = "err"
                        THEN "MemoryReadFailed" ELSE "InternalError"
            IN /\ scan_manager' = [scan_manager EXCEPT !.current_phase = "Error",
                                                        !.last_error = code]
               /\ scan_buffer' = [scan_buffer EXCEPT !.phase = "Error", !.error_code = code]
               /\ scan_task' = [scan_task EXCEPT !.pc = "done"]
    /\ UNCHANGED nonScanVars

\* run_scan_task after Phase 1: the cancellation check, then the match on
\* pointer_lib_result
TaskCheck1 ==
    /\ scan_task.pc = "check1"
    /\ IF scan_manager.cancel_token = "cancelled"
       THEN /\ scan_manager' = [scan_manager EXCEPT !.current_phase = "Cancelled"]
            /\ scan_buffer' = [scan_buffer EXCEPT !.phase = "Cancelled"]
            /\ scan_task' = [scan_task EXCEPT !.pc = "done"]
       ELSE IF scan_task.pointer_lib_result = "ok"
       THEN /\ scan_task' = [scan_task EXCEPT !.pc = "building"]
            /\ UNCHANGED <<scan_manager, scan_buffer>>
       ELSE LET code == IF scan_task.pointer_lib_result = "err"
                        THEN "MemoryReadFailed" ELSE "InternalError"
            IN /\ scan_manager' = [scan_manager EXCEPT !.current_phase = "Error",
                                                        !.last_error = code]
               /\ scan_buffer' = [scan_buffer EXCEPT !.phase = "Error", !.error_code = code]
               /\ scan_task' = [scan_task EXCEPT !.pc = "done"]
    /\ UNCHANGED nonScanVars

\* run_scan_task: "Update phase" before Phase 2
TaskBuildingChains ==
    /\ scan_task.pc = "building"
    /\ scan_manager' = [scan_manager EXCEPT !.current_phase = "BuildingChains"]
    /\ scan_buffer' = [scan_buffer EXCEPT !.phase = "BuildingChains"]
    /\ scan_task' = [scan_task EXCEPT !.pc = "phase2"]
    /\ UNCHANGED nonScanVars

\* run_scan_task, Phase 2: the library is read into global_pointers and
\* scan_to_file runs; it returns its result, returns an error (a file
\* error, or the cancellation it polls at every level) or panics.  The
\* library's content is first looked at here, so it is chosen here.
TaskPhase2 ==
    /\ scan_task.pc = "phase2"
    /\ \/ \E lib \in PointerLibs :
             LET result == scan_to_file(GlobalPointers(lib), scan_task.static_modules,
                                        scan_task.target_address, scan_task.max_depth,
                                        scan_task.max_offset, MaxChainsWritten)
             IN /\ scan_task' = [scan_task EXCEPT !.pc = "check2", !.pointer_lib = lib,
                                                  !.scan_result = "ok",
                                                  !.output = result.chains,
                                                  !.total_count = result.total_count]
                \* the last update_building_progress of the progress callback
                /\ scan_buffer' = [scan_buffer EXCEPT
                        !.progress = building_progress(result.callback.current_depth,
                                                       scan_task.max_depth),
                        !.chains_found = result.callback.chains_found]
       \/ \E outcome \in {"err", "panic"} :
             /\ scan_task' = [scan_task EXCEPT !.pc = "check2", !.scan_result = outcome]
             /\ UNCHANGED scan_buffer
    /\ UNCHANGED <<scan_manager, nonScanVars>>

\* run_scan_task after Phase 2: the cancellation check, then "Store results"
\* up to its first write to the status buffer; the library went with the
\* blocking task, the output file stays.  The status buffer is memory the
\* UI reads without the lock, so each field written is a step.
TaskCheck2 ==
    /\ scan_task.pc = "check2"
    /\ IF scan_manager.cancel_token = "cancelled"
       THEN /\ scan_manager' = [scan_manager EXCEPT !.current_phase = "Cancelled"]
            /\ scan_buffer' = [scan_buffer EXCEPT !.phase = "Cancelled"]
            /\ scan_task' = [scan_task EXCEPT !.pc = "done", !.pointer_lib = <<>>]
       ELSE IF scan_task.scan_result = "ok"
       THEN /\ scan_manager' = [scan_manager EXCEPT
                                   !.scan_result = <<[total_count |-> scan_task.total_count]>>,
                                   !.current_phase = "Completed"]
            /\ scan_buffer' = [scan_buffer EXCEPT !.phase = "Completed"]
            /\ scan_task' = [scan_task EXCEPT !.pc = "write_progress", !.pointer_lib = <<>>]
       ELSE /\ scan_manager' = [scan_manager EXCEPT !.current_phase = "Error",
                                                     !.last_error = "InternalError"]
            /\ scan_buffer' = [scan_buffer EXCEPT !.phase = "Error",
                                                  !.error_code = "InternalError"]
            /\ scan_task' = [scan_task EXCEPT !.pc = "done", !.pointer_lib = <<>>]
    /\ UNCHANGED nonScanVars

\* SharedBuffer::write_progress: progress.clamp(0, 100)
clamp_progress(value) == IF value < 0 THEN 0 ELSE IF value > 100 THEN 100 ELSE value

\* "Store results": manager.shared_buffer.write_progress(100)
TaskWriteProgress ==
    /\ scan_task.pc = "write_progress"
    /\ scan_buffer' = [scan_buffer EXCEPT !.progress = clamp_progress(100)]
    /\ scan_task' = [scan_task EXCEPT !.pc = "write_chains"]
    /\ UNCHANGED <<scan_manager, nonScanVars>>

\* "Store results": manager.shared_buffer.write_chains_found(total_count);
\* the write guard is dropped and the task returns
TaskWriteChainsFound ==
    /\ scan_task.pc = "write_chains"
    /\ scan_buffer' = [scan_buffer EXCEPT !.chains_found = scan_task.total_count]
    /\ scan_task' = [scan_task EXCEPT !.pc = "done"]
    /\ UNCHANGED <<scan_manager, nonScanVars>>

ScanInit ==
    /\ EngineInit
    /\ MatcherIdle
    /\ FuzzyIdle
    /\ QueueIdle
    /\ ScanIdle
    /\ SmallIdle

ScanNext ==
    \/ StartScanAsync
    \/ ScanRequestCancel
    \/ TaskPhase1
    \/ TaskCheck1
    \/ TaskBuildingChains
    \/ TaskPhase2
    \/ TaskCheck2
    \/ TaskWriteProgress
    \/ TaskWriteChainsFound

SpecScan == ScanInit /\ [][ScanNext]_vars

\* The pointer scan up to its check after Phase 1, together with a UI that
\* writes the cancel_flag field.  No operation of the scan reads that field.
ScanFlagNext ==
    \/ StartScanAsync
    \/ ScanRequestCancel
    \/ ScanSetCancelFlag
    \/ TaskPhase1
    \/ TaskCheck1

SpecScanFlag == ScanInit /\ [][ScanFlagNext]_vars

\* While the phase of a pointer scan is not terminal its coordinator is at
\* one of its steps, each of which moves it on towards its end.
ScanRunningHasCoordinator ==
    (scan_buffer.phase \in {"ScanningPointers", "BuildingChains", "WritingFile"})
        => (scan_task.pc \in {"phase1", "check1", "building", "phase2", "check2"})

\* dereference addr and add the next offset, hop by hop: the address the
\* chain's links end at, or NoPtr when a link is not a pointer of the library
RECURSIVE FollowChain(_, _, _)
FollowChain(lib, addr, offsets) ==
    IF offsets = <<>> THEN addr
    ELSE IF addr \notin PtrAddr \/ lib[addr] = NoPtr THEN NoPtr
    ELSE FollowChain(lib, lib[addr] + Head(offsets), Tail(offsets))

\* C17: every chain scan_to_file wrote is rooted inside the static module
\* it names, each of its offsets lies in [0, max_offset], and following
\* its links through the pointer library ends at the target address.
C17_ChainIntegrity ==
    scan_task.pc = "check2" /\ scan_task.scan_result = "ok" =>
        \A i \in 1..Len(scan_task.output) :
            LET chain == scan_task.output[i]
            IN /\ \E k \in 1..Len(scan_task.static_modules) :
                     LET m == scan_task.static_modules[k]
                     IN /\ m.name = chain.module_name
                        /\ m.index = chain.module_index
                        /\ m.base_address <= chain.root
                        /\ chain.root < m.end_address
               /\ \A j \in 1..Len(chain.offsets) :
                     chain.offsets[j] >= 0 /\ chain.offsets[j] <= scan_task.max_offset
               /\ FollowChain(scan_task.pointer_lib, chain.root, chain.offsets)
                     = scan_task.target_address

\* a chain of two hops, one of them with a non-zero offset, was written
C17_TwoHopChain ==
    /\ scan_task.pc = "check2"
    /\ scan_task.scan_result = "ok"
    /\ \E i \in 1..Len(scan_task.output) :
          /\ Len(scan_task.output[i].offsets) = 2
          /\ \E j \in 1..2 : scan_task.output[i].offsets[j] > 0

\* the number of chains the scan of the running task writes when nothing
\* limits the output
UnclampedTotal ==
    Len(scan_to_file(GlobalPointers(scan_task.pointer_lib), scan_task.static_modules,
                     scan_task.target_address, scan_task.max_depth, scan_task.max_offset,
                     (MaxDepth + 1) * (MaxPtrAddr + 1) ^ (MaxDepth + 1)).chains)

\* C18: the output holds at most max_chains chains, the count scan_to_file
\* returns is the number of chains an unlimited output would hold, and that
\* count is what a completed scan reports in scan_result and chains_found.
C18_UnclampedTotal ==
    /\ scan_task.pc = "check2" /\ scan_task.scan_result = "ok" =>
          /\ Len(scan_task.output) <= MaxChainsWritten
          /\ scan_task.total_count = UnclampedTotal
    /\ scan_manager.current_phase = "Completed" =>
          /\ scan_manager.scan_result = <<[total_count |-> scan_task.total_count]>>
          /\ scan_buffer.chains_found = scan_task.total_count

\* a completed scan that found more chains than it wrote
C18_ClampedOutput ==
    /\ scan_manager.current_phase = "Completed"
    /\ Len(scan_task.output) = MaxChainsWritten
    /\ scan_buffer.chains_found > MaxChainsWritten

\* C19: the modules of one name share the base address of the first of
\* them, and the base offset of every written chain is its root's distance
\* from that shared base, whichever instance the root lies in.
C19_CanonicalBase ==
    /\ \A k, l \in 1..Len(scan_task.static_modules) :
          LET m == scan_task.static_modules[k]
              n == scan_task.static_modules[l]
          IN m.name = n.name /\ n.index = 0 => m.first_module_base_addr = n.base_address
    /\ scan_task.pc = "check2" /\ scan_task.scan_result = "ok" =>
          \A i \in 1..Len(scan_task.output) :
             \A k \in 1..Len(scan_task.static_modules) :
                LET chain == scan_task.output[i]
                    m == scan_task.static_modules[k]
                IN m.name = chain.module_name /\ m.index = chain.module_index
                      => chain.base_offset = chain.root - m.first_module_base_addr

\* the coordinator's step after a phase that failed, and the error code
\* that failure translates to
FailedPhaseChecked ==
    \/ scan_task.pc = "check1" /\ scan_task'.pc # "check1"
          /\ scan_task.pointer_lib_result \in {"err", "panic"}
    \/ scan_task.pc = "check2" /\ scan_task'.pc # "check2"
          /\ scan_task.scan_result \in {"err", "panic"}
FailureCode ==
    IF scan_task.pc = "check1" /\ scan_task.pointer_lib_result = "err"
    THEN "MemoryReadFailed" ELSE "InternalError"
EndedInError ==
    /\ scan_task'.pc = "done"
    /\ scan_manager'.current_phase = "Error" /\ scan_manager'.last_error = FailureCode
    /\ scan_buffer'.phase = "Error" /\ scan_buffer'.error_code = FailureCode

\* C20: a Phase 1 that returned an error ends the scan with phase Error
\* and code MemoryReadFailed; a panic in either phase, or a Phase 2 that
\* returned an error, ends it with phase Error and code InternalError.
C20_FailureEndsInError == [][FailedPhaseChecked => EndedInError]_vars

\* C20 as amended: the same, unless cancellation was requested before the
\* coordinator's check after the failed phase; then the scan ends with
\* phase Cancelled and the error code is left as it was.
C20_FailureOrCancelled ==
    [][FailedPhaseChecked =>
          IF scan_manager.cancel_token = "cancelled"
          THEN /\ scan_task'.pc = "done"
               /\ scan_manager'.current_phase = "Cancelled"
               /\ scan_buffer'.phase = "Cancelled"
               /\ scan_manager'.last_error = scan_manager.last_error
               /\ scan_buffer'.error_code = scan_buffer.error_code
          ELSE EndedInError]_vars

\* a scan whose Phase 1 returned an error has ended with MemoryReadFailed
C20_MemoryReadFailed ==
    /\ scan_task.pc = "done"
    /\ scan_task.pointer_lib_result = "err"
    /\ scan_manager.current_phase = "Error"
    /\ scan_manager.last_error = "MemoryReadFailed"
    /\ scan_buffer.error_code = "MemoryReadFailed"

\* C21: once cancellation of a pointer scan has been requested, no step
\* publishes BuildingChains, WritingFile or Completed.
C21_NothingPublishedAfterRequest ==
    [][scan_manager.cancel_token = "cancelled" /\ scan_buffer'.phase # scan_buffer.phase
          => scan_buffer'.phase \notin {"BuildingChains", "WritingFile", "Completed"}]_vars

\* C21 as amended: when cancellation was requested before the coordinator's
\* check that follows Phase 1, that check takes the phase straight from
\* ScanningPointers to Cancelled and the coordinator returns.
C21_CancelledAtCheck ==
    [][scan_task.pc = "check1" /\ scan_task'.pc # "check1"
          /\ scan_manager.cancel_token = "cancelled"
          => /\ scan_buffer.phase = "ScanningPointers"
             /\ scan_buffer'.phase = "Cancelled"
             /\ scan_manager'.current_phase = "Cancelled"
             /\ scan_task'.pc = "done"]_vars

\* a scan whose Phase 1 succeeded was cancelled before Phase 2 began
C21_CancelledBetweenPhases ==
    /\ scan_task.pc = "done"
    /\ scan_task.pointer_lib_result = "ok"
    /\ scan_task.scan_result = "none"
    /\ scan_buffer.phase = "Cancelled"

\* C22: a submission with an empty region list spawns no coordinator: no
\* search or fuzzy-search task exists whose region list was empty.
C22_NoCoordinatorForEmptyRegions ==
    \A s \in Slots : tasks[s].kind \in {"search", "fuzzy"} => tasks[s].total > 0

\* C26: the cancel flag of the status buffer and the cancellation token are
\* OR-ed: once a running coordinator has seen a trip on either of them, the
\* other one is set as well.
C26_TripMirrored ==
    \A s \in Slots :
        (tasks[s].pc \notin {"free", "finished"} /\ tasks[s].cancelled)
            => (tasks[s].token /\ cancel_flag # 0)

\* C27: a submission rejected because a search is already in flight leaves
\* the status buffer untouched: status, progress and error_code stay those
\* published by the search in flight.
C27_RejectLeavesBuffer ==
    [][(writer = "none" /\ writer' = "ui" /\ initialized /\ is_searching)
          => (status' = status /\ progress' = progress /\ error_code' = error_code)]_vars

\* C28: once a coordinator has published its terminal status (Completed,
\* Cancelled or Error), is_searching() is false, so that a new submission is
\* accepted rather than rejected with AlreadySearching.
C28_TerminalMeansNotSearching ==
    [][\A s \in Slots :
          (Terminates(s) /\ search_handle = s
             /\ status' \in {"Completed", "Cancelled", "Error"}) => (~is_searching)']_vars

\* C29: the store after a refine's final swap holds no record that was not
\* in the store immediately before that swap, so records the UI removed
\* while the refine was in flight are not in the store afterwards.
C29_RefineSwapShrinks ==
    [][\A s \in Slots :
          (tasks[s].kind = "refine" /\ tasks[s].pc = "swap" /\ tasks'[s].pc = "release")
             => SetOfAddresses(store') \subseteq SetOfAddresses(store)]_vars

C31_FlagCancelsScan ==
    [][(scan_buffer.cancel_flag = 1
          /\ scan_buffer'.phase # scan_buffer.phase
          /\ scan_buffer'.phase \in {"Completed", "Cancelled", "Error"})
            => scan_buffer'.phase = "Cancelled"]_vars

\* C32: a reader that sees phase Completed in the status buffer sees
\* progress 100 and the final chain count of that scan in chains_found.
C32_CompletedIsFinal ==
    scan_buffer.phase = "Completed"
        => /\ scan_buffer.progress = 100
           /\ scan_manager.scan_result # <<>>
           /\ scan_buffer.chains_found = scan_manager.scan_result[1].total_count

\* the coordinator holds the result of a scan_to_file that returned Ok
ScanBuilt == scan_task.pc = "check2" /\ scan_task.scan_result = "ok"

\* the levels and the indexed roots of the scan of the running task
TaskLevels ==
    scan_levels(GlobalPointers(scan_task.pointer_lib), scan_task.static_modules,
                scan_task.target_address, scan_task.max_depth, scan_task.max_offset)

\* the 0-based positions of the nodes of `below` whose address lies in
\* [value, value + max_offset]
InWindow(below, value) ==
    {i \in 0..(Len(below) - 1) :
        /\ below[i + 1].address >= value
        /\ below[i + 1].address <= value + scan_task.max_offset}

\* [d.start, d.end) lies within `below` and holds exactly the window of d
BoundTo(d, below) ==
    /\ 0 <= d.start
    /\ d.start <= d.end
    /\ d.end <= Len(below)
    /\ {i \in 0..(Len(below) - 1) : d.start <= i /\ i < d.end} = InWindow(below, d.value)

\* C38: for every node d of a level L >= 1, among the candidates or among
\* the roots found in static modules, [d.start, d.end) indexes exactly the
\* nodes of level L-1 whose address lies in [d.value, d.value + W], within
\* the level L-1 array as truncated.
C38_ParentChildBinding ==
    ScanBuilt =>
        LET t == TaskLevels
        IN  /\ \A L \in 1..scan_task.max_depth :
                 \A j \in 1..Len(t.dirs[L + 1]) : BoundTo(t.dirs[L + 1][j], t.dirs[L])
            /\ \A r \in 1..Len(t.ranges) :
                 t.ranges[r].level >= 1 =>
                    \A j \in 1..Len(t.ranges[r].results) :
                       BoundTo(t.ranges[r].results[j], t.dirs[t.ranges[r].level])

\* a root at level 2 is bound to two children of a level that was truncated,
\* and a node of level 1 is bound to the target
C38_BoundAfterTruncation ==
    /\ ScanBuilt
    /\ LET t == TaskLevels
       IN  /\ Len(filter_pointer_ranges(scan_task.static_modules,
                     search_pointer(GlobalPointers(scan_task.pointer_lib), t.dirs[1],
                                    scan_task.max_offset), 1).dirs) > MAX_CANDIDATES_PER_LAYER
           /\ \E r \in 1..Len(t.ranges) :
                 /\ t.ranges[r].level = 2
                 /\ \E j \in 1..Len(t.ranges[r].results) :
                       t.ranges[r].results[j].end - t.ranges[r].results[j].start = 2
           /\ \E j \in 1..Len(t.dirs[2]) : t.dirs[2][j].end - t.dirs[2][j].start = 1

\* the number of paths from a node holding `value` at `level` down to level 0:
\* each hop goes to a node of the level below whose address lies in the
\* window of the value above it
RECURSIVE LeafPaths(_, _, _)
LeafPaths(dirs, value, level) ==
    IF level = 0 THEN 1
    ELSE LET below == dirs[level]
             RECURSIVE sum(_)
             sum(i) ==
                 IF i > Len(below) THEN 0
                 ELSE (IF (i - 1) \in InWindow(below, value)
                       THEN LeafPaths(dirs, below[i].value, level - 1) ELSE 0)
                      + sum(i + 1)
         IN  sum(1)

\* the leaf paths of all roots
RECURSIVE RootLeafPaths(_, _)
RootLeafPaths(dirs, roots) ==
    IF roots = <<>> THEN 0
    ELSE LeafPaths(dirs, Head(roots).dir.value, Head(roots).range.level)
         + RootLeafPaths(dirs, Tail(roots))

LevelIterations(t) == t.reported + 1 + (IF t.broke THEN 1 ELSE 0)

\* C40: no level keeps more than MAX_CANDIDATES_PER_LAYER candidates, the
\* level loop breaks at the first level whose search yields nothing, and it
\* runs at most max_depth + 1 iterations.
C40_Truncation ==
    ScanBuilt =>
        LET t == TaskLevels
            found(L) == search_pointer(GlobalPointers(scan_task.pointer_lib), t.dirs[L],
                                       scan_task.max_offset)
        IN  /\ \A L \in 0..scan_task.max_depth :
                 Len(t.dirs[L + 1]) <= MAX_CANDIDATES_PER_LAYER
            /\ \A L \in 1..t.reported : found(L) # <<>>
            /\ t.broke =>
                 /\ t.reported < scan_task.max_depth
                 /\ found(t.reported + 1) = <<>>
                 /\ \A L \in (t.reported + 1)..scan_task.max_depth : t.dirs[L + 1] = <<>>
                 /\ \A r \in 1..Len(t.ranges) : t.ranges[r].level <= t.reported
            /\ ~t.broke => t.reported = scan_task.max_depth
            /\ LevelIterations(t) <= scan_task.max_depth + 1

\* level 1 found more candidates than a level keeps and the loop broke at
\* level 2, which found none
C40_TruncatedThenBroke ==
    /\ ScanBuilt
    /\ scan_task.max_depth = 2
    /\ LET t == TaskLevels
       IN  /\ t.broke
           /\ t.reported = 1
           /\ Len(filter_pointer_ranges(scan_task.static_modules,
                     search_pointer(GlobalPointers(scan_task.pointer_lib), t.dirs[1],
                                    scan_task.max_offset), 1).dirs) > MAX_CANDIDATES_PER_LAYER
           /\ Len(t.dirs[2]) = MAX_CANDIDATES_PER_LAYER

-----------------------------------------------------------------------------
(***************************************************************************)
(* Part 6.  The memory gateway: DriverManager::read_memory_unified and     *)
(* write_memory_unified (core/driver_manager.rs).                          *)
(*                                                                         *)
(* A 64-bit address is scaled to PayloadBits + TagBits bits: the low       *)
(* PayloadBits take part in the page-table walk, the high TagBits are the  *)
(* tag.  One address stands for one page.  The driver is what the model    *)
(* needs of it: an ioctl is a function of its arguments and of the pages   *)
(* of the bound process, and it faults on an address that is not one of    *)
(* the process.                                                            *)
(***************************************************************************)
\* address bits below the tag (48 in the code)
PayloadBits == 2
\* tag bits (16 in the code)
TagBits == 1
\* longest buffer of a call
MaxBufLen == 2

Canonical == 0..(2 ^ PayloadBits - 1)
GatewayAddrs == 0..(2 ^ (PayloadBits + TagBits) - 1)
MemoryAccessModes == {"None", "NonCacheable", "WriteThrough", "Normal", "PageFault"}
BigIdle == EngineInit /\ MatcherIdle /\ FuzzyIdle /\ QueueIdle /\ ScanIdle

\* addr | 0xFFFF_0000_0000_0000: every tag bit set
Tagged(addr) == (addr % 2 ^ PayloadBits) + (2 ^ (PayloadBits + TagBits) - 2 ^ PayloadBits)

\* mutant of strip_mte_tag: the address is passed on as it came
strip_mte_tag_kept(addr) == addr

\* addr & 0x0000_FFFF_FFFF_FFFF
strip_mte_tag(addr) == addr % 2 ^ PayloadBits

\* the result of an ioctl on va and the page bits it stores
ioctl_ok(va, pages) == va \in Canonical /\ va \in pages
ioctl_page_status(va, size, pages) == [i \in 1..size |-> (va + i - 1) \in pages]

\* the bitmap after a call: none was passed, or the one passed
StatusAfter(has_status, size, bits) == IF has_status THEN bits ELSE <<>>

\* DriverManager::read_memory_unified: the ioctl issued (if any), the
\* Result, and the caller's page_status afterwards
read_memory_unified(dm, addr, size, has_status, pages) ==
    LET a == strip_mte_tag(addr)
        zero == [i \in 1..size |-> FALSE]
        ok == ioctl_ok(a, pages)
        done(name, bits) ==
            [call |-> <<[name |-> name, va |-> a, size |-> size]>>,
             result |-> IF ok THEN "Ok" ELSE "Err",
             page_status |-> StatusAfter(has_status, size, IF ok THEN bits ELSE zero)]
        refused == [call |-> <<>>, result |-> "Err",
                    page_status |-> StatusAfter(has_status, size, zero)]
    IN IF dm.access_mode = "None"
       THEN IF ~dm.driver THEN refused
            ELSE done("read_physical_memory_with_status", ioctl_page_status(a, size, pages))
       ELSE IF dm.access_mode = "PageFault"
       THEN IF ~dm.driver THEN refused
            ELSE done("read_memory", [i \in 1..size |-> TRUE])
       ELSE IF ~dm.bound_process THEN refused
            ELSE done("bind_proc.read_memory", ioctl_page_status(a, size, pages))

\* DriverManager::write_memory_unified
write_memory_unified(dm, addr, size, pages) ==
    LET a == strip_mte_tag(addr)
        done(name) == [call |-> <<[name |-> name, va |-> a, size |-> size]>>,
                       result |-> IF ioctl_ok(a, pages) THEN "Ok" ELSE "Err",
                       page_status |-> <<>>]
        refused == [call |-> <<>>, result |-> "Err", page_status |-> <<>>]
    IN IF dm.access_mode = "None"
       THEN IF ~dm.driver THEN refused ELSE done("write_physical_memory")
       ELSE IF dm.access_mode = "PageFault"
       THEN IF ~dm.driver THEN refused ELSE done("write_memory")
       ELSE IF ~dm.bound_process THEN refused ELSE done("bind_proc.write_memory")

GatewayInit ==
    /\ BigIdle
    /\ HeartbeatIdle
    /\ ParseIdle
    /\ BatchIdle
    /\ driver_manager = [driver |-> FALSE, bound_process |-> FALSE, bound_pid |-> 0,
                         access_mode |-> "None"]
    /\ target_pages \in SUBSET Canonical
    /\ gateway_call = [op |-> "none"]

\* DriverManager::set_driver
SetDriver ==
    /\ driver_manager' = [driver_manager EXCEPT !.driver = TRUE]
    /\ UNCHANGED <<target_pages, gateway_call, nonGatewayVars>>

\* DriverManager::set_access_mode: the mode is stored before the memory
\* type is set, so it is stored whether or not that succeeds
SetAccessMode ==
    /\ \E new_mode \in MemoryAccessModes :
          driver_manager' = [driver_manager EXCEPT !.access_mode = new_mode]
    /\ UNCHANGED <<target_pages, gateway_call, nonGatewayVars>>

\* DriverManager::bind_process: nothing is bound when set_memory_type fails
BindProcess ==
    /\ \E set_memory_type_ok \in BOOLEAN :
          IF driver_manager.access_mode \in {"None", "PageFault"} \/ set_memory_type_ok
          THEN driver_manager' = [driver_manager EXCEPT !.bound_process = TRUE,
                                                        !.bound_pid = 1]
          ELSE UNCHANGED driver_manager
    /\ UNCHANGED <<target_pages, gateway_call, nonGatewayVars>>

\* DriverManager::unbind_process
UnbindProcess ==
    /\ driver_manager' = [driver_manager EXCEPT !.bound_process = FALSE, !.bound_pid = 0]
    /\ UNCHANGED <<target_pages, gateway_call, nonGatewayVars>>

\* a caller reads through the gateway
ReadMemoryUnified ==
    /\ \E addr \in GatewayAddrs, size \in 1..MaxBufLen, has_status \in BOOLEAN :
          gateway_call' = [op |-> "read", addr |-> addr, size |-> size,
                           has_status |-> has_status,
                           out |-> read_memory_unified(driver_manager, addr, size,
                                                       has_status, target_pages)]
    /\ UNCHANGED <<driver_manager, target_pages, nonGatewayVars>>

\* a caller writes through the gateway
WriteMemoryUnified ==
    /\ \E addr \in GatewayAddrs, size \in 1..MaxBufLen :
          gateway_call' = [op |-> "write", addr |-> addr, size |-> size,
                           has_status |-> FALSE,
                           out |-> write_memory_unified(driver_manager, addr, size,
                                                        target_pages)]
    /\ UNCHANGED <<driver_manager, target_pages, nonGatewayVars>>

GatewayNext ==
    \/ SetDriver
    \/ SetAccessMode
    \/ BindProcess
    \/ UnbindProcess
    \/ ReadMemoryUnified
    \/ WriteMemoryUnified

SpecGateway == GatewayInit /\ [][GatewayNext]_vars

\* C23: a call with addr and the call with every tag bit of addr set issue
\* the same ioctl, on the address without its tag, and return the same
\* Result and the same page bitmap, for reads and writes in every mode.
C23_TagIgnored ==
    [][gateway_call' # gateway_call =>
          LET c == gateway_call'
              tagged == IF c.op = "read"
                        THEN read_memory_unified(driver_manager, Tagged(c.addr), c.size,
                                                 c.has_status, target_pages)
                        ELSE write_memory_unified(driver_manager, Tagged(c.addr), c.size,
                                                  target_pages)
              plain == IF c.op = "read"
                       THEN read_memory_unified(driver_manager, c.addr % 2 ^ PayloadBits,
                                                c.size, c.has_status, target_pages)
                       ELSE write_memory_unified(driver_manager, c.addr % 2 ^ PayloadBits,
                                                 c.size, target_pages)
          IN /\ c.out = tagged
             /\ c.out = plain
             /\ \A k \in 1..Len(c.out.call) : c.out.call[k].va = c.addr % 2 ^ PayloadBits]_vars

\* a read of a tagged address succeeded and filled the caller's bitmap
C23_TaggedReadSucceeded ==
    /\ gateway_call.op = "read"
    /\ gateway_call.addr \notin Canonical
    /\ gateway_call.has_status
    /\ gateway_call.out.result = "Ok"
    /\ \E i \in 1..gateway_call.size : gateway_call.out.page_status[i]

-----------------------------------------------------------------------------
(***************************************************************************)
(* Part 7.  Progress publication of Phase 1 of the pointer scan            *)
(* (pointer_scan/shared_buffer.rs): the worker threads of the scan call    *)
(* the progress callback, which holds the manager's read lock, so          *)
(* publishes of different threads interleave.                              *)
(***************************************************************************)
\* worker threads that publish
NThreads == 2
\* publishes in one behaviour
MaxHeartbeat == 3
\* regions of the scan
MaxScanRegions == 2

\* the worker threads of scan_all_pointers
HbThreads == 1..NThreads

HeartbeatInit ==
    /\ BigIdle
    /\ GatewayIdle
    /\ ParseIdle
    /\ BatchIdle
    /\ hb_buffer = [heartbeat_counter |-> 0, heartbeat |-> 0, progress |-> 0,
                    regions_done |-> 0, pointers_found |-> 0]
    /\ hb_threads = [t \in HbThreads |-> [pc |-> "idle", value |-> 0]]

\* update_scanning_progress up to its call of update_heartbeat
UpdateScanningProgress(t) ==
    /\ hb_threads[t].pc = "idle"
    /\ hb_buffer.heartbeat_counter < MaxHeartbeat
    /\ \E regions_done \in 0..MaxScanRegions, pointers_found \in 0..1 :
          hb_buffer' = [hb_buffer EXCEPT
                           !.progress = (regions_done * 50) \div MaxScanRegions,
                           !.regions_done = regions_done,
                           !.pointers_found = pointers_found]
    /\ hb_threads' = [hb_threads EXCEPT ![t].pc = "fetch_add"]
    /\ UNCHANGED nonHeartbeatVars

\* update_heartbeat: heartbeat_counter.fetch_add(1, Relaxed)
HeartbeatFetchAdd(t) ==
    /\ hb_threads[t].pc = "fetch_add"
    /\ hb_threads' = [hb_threads EXCEPT ![t] = [pc |-> "write",
                                                value |-> hb_buffer.heartbeat_counter]]
    /\ hb_buffer' = [hb_buffer EXCEPT !.heartbeat_counter = @ + 1]
    /\ UNCHANGED nonHeartbeatVars

\* update_heartbeat: write_i32(offsets::HEARTBEAT, value as i32)
HeartbeatWrite(t) ==
    /\ hb_threads[t].pc = "write"
    /\ hb_buffer' = [hb_buffer EXCEPT !.heartbeat = hb_threads[t].value]
    /\ hb_threads' = [hb_threads EXCEPT ![t].pc = "idle"]
    /\ UNCHANGED nonHeartbeatVars

HeartbeatNext ==
    \E t \in HbThreads :
       \/ UpdateScanningProgress(t)
       \/ HeartbeatFetchAdd(t)
       \/ HeartbeatWrite(t)

SpecHeartbeat == HeartbeatInit /\ [][HeartbeatNext]_vars

\* C24: the heartbeat field of the status buffer never decreases, whatever
\* the interleaving of the publishing threads.
C24_HeartbeatMonotonic ==
    [][hb_buffer'.heartbeat >= hb_buffer.heartbeat]_vars

-----------------------------------------------------------------------------
\* Part 8: the pattern literal parser (search/pattern.rs).

MaxInputLen == 4

\* Characters of the input: digits and letters inside and outside the hex
\* ranges, the wildcard, a space, and one character outside ASCII.
PatternChars == {"1", "A", "a", "?", "G", "é", " "}

\* The Unicode scalar value of a character.
code_point(c) ==
    CASE c = " " -> 32
      [] c = "1" -> 49
      [] c = "?" -> 63
      [] c = "A" -> 65
      [] c = "G" -> 71
      [] c = "a" -> 97
      [] c = "é" -> 233

\* str::len counts UTF-8 bytes: one for ASCII, two up to U+07FF.
utf8_len(c) == IF code_point(c) < 128 THEN 1 ELSE 2

RECURSIVE str_len(_)
str_len(str) == IF str = <<>> THEN 0 ELSE utf8_len(Head(str)) + str_len(Tail(str))

is_whitespace(c) == c = " "

RECURSIVE trim_start(_)
trim_start(str) ==
    IF str # <<>> /\ is_whitespace(Head(str)) THEN trim_start(Tail(str)) ELSE str

RECURSIVE trim_end(_)
trim_end(str) ==
    IF str # <<>> /\ is_whitespace(str[Len(str)])
    THEN trim_end(SubSeq(str, 1, Len(str) - 1))
    ELSE str

trim(str) == trim_end(trim_start(str))

\* The maximal runs of characters that are not whitespace, in order.
RECURSIVE split_whitespace(_, _)
split_whitespace(str, part) ==
    IF str = <<>>
    THEN IF part = <<>> THEN <<>> ELSE <<part>>
    ELSE IF is_whitespace(Head(str))
         THEN (IF part = <<>> THEN <<>> ELSE <<part>>) \o split_whitespace(Tail(str), <<>>)
         ELSE split_whitespace(Tail(str), Append(part, Head(str)))

\* parse_nibble: '?' is (0, 0); a hex digit is (digit, 0xF); anything else fails.
parse_nibble(c) ==
    LET n == code_point(c)
    IN  IF c = "?" THEN [ok |-> TRUE, val |-> 0, mask |-> 0]
        ELSE IF n >= 48 /\ n <= 57 THEN [ok |-> TRUE, val |-> n - 48, mask |-> 15]
        ELSE IF n >= 65 /\ n <= 70 THEN [ok |-> TRUE, val |-> n - 65 + 10, mask |-> 15]
        ELSE IF n >= 97 /\ n <= 102 THEN [ok |-> TRUE, val |-> n - 97 + 10, mask |-> 15]
        ELSE [ok |-> FALSE, val |-> 0, mask |-> 0]

\* parse_byte: (high << 4) | low on u8, for the value and for the mask.
parse_byte(high, low) ==
    LET h == parse_nibble(high)
        l == parse_nibble(low)
    IN  IF ~h.ok \/ ~l.ok
        THEN [ok |-> FALSE, value |-> 0, mask |-> 0]
        ELSE [ok |-> TRUE,
              value |-> ((h.val * 16) % 256) + l.val,
              mask |-> ((h.mask * 16) % 256) + l.mask]

\* The loop of parse_pattern over the parts: the byte length is tested, then
\* chars[0] and chars[1] are indexed; indexing past the end panics.
RECURSIVE parse_parts(_, _)
parse_parts(parts, result) ==
    IF parts = <<>>
    THEN IF result = <<>> THEN [kind |-> "err"] ELSE [kind |-> "ok", pattern |-> result]
    ELSE LET part == Head(parts)
         IN  IF str_len(part) # 2 THEN [kind |-> "err"]
             ELSE IF Len(part) < 2 THEN [kind |-> "panic"]
             ELSE LET b == parse_byte(part[1], part[2])
                  IN  IF ~b.ok THEN [kind |-> "err"]
                      ELSE parse_parts(Tail(parts),
                                       Append(result, [value |-> b.value, mask |-> b.mask]))

parse_pattern(input) ==
    LET trimmed == trim(input)
    IN  IF trimmed = <<>> THEN [kind |-> "err"]
        ELSE parse_parts(split_whitespace(trimmed, <<>>), <<>>)

PatternInputs == UNION {[1..n -> PatternChars] : n \in 0..MaxInputLen}

PatternInit ==
    /\ BigIdle /\ GatewayIdle /\ HeartbeatIdle /\ BatchIdle
    /\ parse_input \in PatternInputs
    /\ parse_result = [kind |-> "none"]

\* A call of parse_pattern on the input string.
ParsePattern ==
    /\ parse_result.kind = "none"
    /\ parse_result' = parse_pattern(parse_input)
    /\ UNCHANGED <<parse_input, nonParseVars>>

PatternNext == ParsePattern

SpecPattern == PatternInit /\ [][PatternNext]_vars

\* The grammar of a pattern literal: hex digits and the byte each token denotes.
HexDigits == {"1", "A", "a"}
NibbleValue(c) == CASE c = "1" -> 1 [] c = "A" -> 10 [] c = "a" -> 10 [] c = "?" -> 0
NibbleMask(c) == IF c = "?" THEN 0 ELSE 15
WellFormedToken(tok) ==
    Len(tok) = 2 /\ \A i \in 1..2 : tok[i] \in HexDigits \cup {"?"}
TokenByte(tok) ==
    [value |-> 16 * NibbleValue(tok[1]) + NibbleValue(tok[2]),
     mask |-> 16 * NibbleMask(tok[1]) + NibbleMask(tok[2])]
TokensOf(input) == split_whitespace(input, <<>>)

\* C25: every token of two characters from hex digits and '?' becomes one
\* (value, mask) byte, nibble by nibble (?? is (0,0), 1? is (0x10,0xF0), ?A is
\* (0x0A,0x0F), 1A is (0x1A,0xFF)), and a pattern with any other token is
\* rejected as a whole.
C25_ParseContract ==
    parse_result.kind # "none" =>
        LET toks == TokensOf(parse_input)
        IN  /\ (toks # <<>> /\ \A i \in 1..Len(toks) : WellFormedToken(toks[i]))
                => /\ parse_result.kind = "ok"
                   /\ Len(parse_result.pattern) = Len(toks)
                   /\ \A i \in 1..Len(toks) : parse_result.pattern[i] = TokenByte(toks[i])
            /\ (\E i \in 1..Len(toks) : ~WellFormedToken(toks[i]))
                => parse_result.kind = "err"
            /\ (parse_input = <<"?", "?">> => parse_result.pattern = <<[value |-> 0, mask |-> 0]>>)
            /\ (parse_input = <<"1", "?">> => parse_result.pattern = <<[value |-> 16, mask |-> 240]>>)
            /\ (parse_input = <<"?", "A">> => parse_result.pattern = <<[value |-> 10, mask |-> 15]>>)
            /\ (parse_input = <<"1", "A">> => parse_result.pattern = <<[value |-> 26, mask |-> 255]>>)

\* The same contract over the inputs whose characters are all ASCII.
C25_ParseContractAscii ==
    (\A i \in 1..Len(parse_input) : code_point(parse_input[i]) < 128) => C25_ParseContract

-----------------------------------------------------------------------------
(***************************************************************************)
(* Part 9.  The batch reader of the fuzzy refine                           *)
(* (search/engine/batch_reader.rs, called by fuzzy_refine_search).         *)
(* Addresses, the gap limit and the size limit are scaled down; the value  *)
(* sizes 1 and 2 stand for the sizes 1, 2, 4 and 8 of the value types.     *)
(* item_index counts from 1 here and from 0 in the source.  The batches    *)
(* are taken in index order; rayon reduces their results in that order.    *)
(***************************************************************************)
MaxBatchItems == 3
MaxBatchAddr == 5
MaxGap == 1
MaxBatchSize == 4

BATCH_MAX_GAP == MaxGap
BATCH_MAX_SIZE == MaxBatchSize
ValueSizes == {1, 2}

\* AddressBatch::new: a batch of one address
AddressBatch_new(start_addr, size, index) ==
    [start_addr |-> start_addr, total_size |-> size,
     items |-> <<[offset |-> 0, item_index |-> index, value_size |-> size]>>]

\* the merge test of cluster_addresses with the gap limit off by one
merge_decision_wide(gap, new_total_size) ==
    gap <= BATCH_MAX_GAP + 1 /\ new_total_size <= BATCH_MAX_SIZE

\* the merge test of cluster_addresses
merge_decision(gap, new_total_size) ==
    gap <= BATCH_MAX_GAP /\ new_total_size <= BATCH_MAX_SIZE

\* the loop of cluster_addresses; current is <<>> or holds the open batch
RECURSIVE cluster_loop(_, _, _, _)
cluster_loop(items, idx, batches, current) ==
    IF idx > Len(items) THEN batches \o current
    ELSE LET addr == items[idx].address
             size == items[idx].value_size
         IN  IF current = <<>>
             THEN cluster_loop(items, idx + 1, batches, <<AddressBatch_new(addr, size, idx)>>)
             ELSE LET batch == current[1]
                      batch_end == batch.start_addr + batch.total_size
                      gap == IF addr >= batch_end THEN addr - batch_end ELSE 0
                      new_total_size == addr + size - batch.start_addr
                  IN  IF merge_decision(gap, new_total_size)
                      THEN cluster_loop(items, idx + 1, batches,
                               <<[batch EXCEPT
                                    !.total_size = new_total_size,
                                    !.items = Append(@, [offset |-> addr - batch.start_addr,
                                                         item_index |-> idx,
                                                         value_size |-> size])]>>)
                      ELSE cluster_loop(items, idx + 1, Append(batches, batch),
                               <<AddressBatch_new(addr, size, idx)>>)

cluster_addresses(items) ==
    IF items = <<>> THEN <<>> ELSE cluster_loop(items, 1, <<>>, <<>>)

\* the elements of s at the indices in K, in order
RECURSIVE keep_indices(_, _)
keep_indices(s, K) ==
    IF s = <<>> THEN <<>>
    ELSE keep_indices(SubSeq(s, 1, Len(s) - 1), K)
         \o (IF Len(s) \in K THEN <<s[Len(s)]>> ELSE <<>>)

\* matches_condition_int on the bytes of the old and the current value
matches_condition(old_value, current_value, condition) ==
    CASE condition = "Unchanged" -> old_value = current_value
      [] condition = "Changed" -> old_value # current_value

\* the results of the refined search: address-sorted items of any value size
BatchItem == [address : 0..MaxBatchAddr, value_size : ValueSizes]
BatchItemLists ==
    {its \in UNION {[1..n -> BatchItem] : n \in 0..MaxBatchItems} :
        \A i \in 1..(Len(its) - 1) : its[i].address <= its[i + 1].address}

\* the value recorded by the previous search: zero bytes
old_value(item) == [i \in 1..item.value_size |-> 0]

BatchInit ==
    /\ BigIdle /\ GatewayIdle /\ HeartbeatIdle /\ ParseIdle
    /\ batch_in \in [items : BatchItemLists, condition : {"Unchanged", "Changed"}]
    /\ batch_run = [pc |-> "start"]

\* fuzzy_refine_search up to the call of parallel_batch_read
ClusterAddresses ==
    /\ batch_run.pc = "start"
    /\ batch_run' =
         IF batch_in.items = <<>>
         THEN [pc |-> "done", batches |-> <<>>, idx |-> 1, acc |-> <<>>, reads |-> <<>>,
               cancelled |-> FALSE, result |-> [kind |-> "ok", matched |-> <<>>]]
         ELSE [pc |-> "read", batches |-> cluster_addresses(batch_in.items), idx |-> 1,
               acc |-> <<>>, reads |-> <<>>, cancelled |-> FALSE,
               result |-> [kind |-> "none"]]
    /\ UNCHANGED <<batch_in, nonBatchVars>>

\* one batch whose read of the whole segment succeeds: the values are sliced
\* out of the buffer; a slice past the end of the buffer panics
BatchReadOk ==
    /\ batch_run.pc = "read"
    /\ batch_run.idx <= Len(batch_run.batches)
    /\ LET batch == batch_run.batches[batch_run.idx]
           read == [kind |-> "batch", batch |-> batch_run.idx, item_index |-> 0,
                    addr |-> batch.start_addr, size |-> batch.total_size, ok |-> TRUE]
       IN  \E buffer \in [1..batch.total_size -> 0..MaxByte] :
             batch_run' =
               IF \E k \in 1..Len(batch.items) :
                     batch.items[k].offset + batch.items[k].value_size > Len(buffer)
               THEN [batch_run EXCEPT !.pc = "done", !.reads = Append(@, read),
                                      !.result = [kind |-> "panic"]]
               ELSE [batch_run EXCEPT
                       !.idx = @ + 1,
                       !.reads = Append(@, read),
                       !.acc = @ \o [k \in 1..Len(batch.items) |->
                                 [item_index |-> batch.items[k].item_index,
                                  current |-> SubSeq(buffer, batch.items[k].offset + 1,
                                                 batch.items[k].offset + batch.items[k].value_size)]]]
    /\ UNCHANGED <<batch_in, nonBatchVars>>

\* a fallback that reads no member
fallback_pushed_none(entries, outcome) == <<>>

\* the fallback loop: the members whose own read succeeds are pushed
fallback_pushed(entries, outcome) ==
    keep_indices(entries, {k \in 1..Len(entries) : outcome[k] >= 0})

\* one batch whose read fails: one read per member; outcome[k] is -1 when the
\* read of member k fails and the byte it fills the small buffer with otherwise
BatchReadFallback ==
    /\ batch_run.pc = "read"
    /\ batch_run.idx <= Len(batch_run.batches)
    /\ LET batch == batch_run.batches[batch_run.idx]
           n == Len(batch.items)
           read == [kind |-> "batch", batch |-> batch_run.idx, item_index |-> 0,
                    addr |-> batch.start_addr, size |-> batch.total_size, ok |-> FALSE]
       IN  \E outcome \in [1..n -> -1..MaxByte] :
             LET single(k) == [kind |-> "single", batch |-> batch_run.idx,
                               item_index |-> batch.items[k].item_index,
                               addr |-> batch_in.items[batch.items[k].item_index].address,
                               size |-> batch.items[k].value_size, ok |-> outcome[k] >= 0]
                 pushed == fallback_pushed([k \in 1..n |->
                                        [item_index |-> batch.items[k].item_index,
                                         current |-> [i \in 1..batch.items[k].value_size |-> outcome[k]]]],
                                     outcome)
             IN  batch_run' = [batch_run EXCEPT
                                 !.idx = @ + 1,
                                 !.reads = Append(@, read) \o [k \in 1..n |-> single(k)],
                                 !.acc = @ \o pushed]
    /\ UNCHANGED <<batch_in, nonBatchVars>>

\* the items of acc that satisfy the condition
matching(acc) ==
    {i \in 1..Len(acc) :
        matches_condition(old_value(batch_in.items[acc[i].item_index]), acc[i].current,
                          batch_in.condition)}

\* FuzzySearchResultItem::from_bytes for the entries of acc kept by keep
matched_items(acc, keep) ==
    [i \in 1..Len(keep_indices(acc, keep)) |->
        [address |-> batch_in.items[keep_indices(acc, keep)[i].item_index].address,
         value_size |-> batch_in.items[keep_indices(acc, keep)[i].item_index].value_size,
         value |-> keep_indices(acc, keep)[i].current]]

\* every batch read: the values are filtered by the condition
FilterResults ==
    /\ batch_run.pc = "read"
    /\ batch_run.idx > Len(batch_run.batches)
    /\ batch_run' = [batch_run EXCEPT
                       !.pc = "done",
                       !.result = [kind |-> "ok",
                                   matched |-> matched_items(batch_run.acc, matching(batch_run.acc))]]
    /\ UNCHANGED <<batch_in, nonBatchVars>>

\* check_cancelled answers true: take_any_while stops the batches, and the
\* filter keeps the items it had passed before the answer
BatchCancel ==
    /\ batch_run.pc = "read"
    /\ \E keep \in SUBSET matching(batch_run.acc) :
         /\ (batch_run.idx <= Len(batch_run.batches) => keep = {})
         /\ batch_run' = [batch_run EXCEPT
                            !.pc = "done", !.cancelled = TRUE,
                            !.result = [kind |-> "ok",
                                        matched |-> matched_items(batch_run.acc, keep)]]
    /\ UNCHANGED <<batch_in, nonBatchVars>>

BatchNext ==
    \/ ClusterAddresses
    \/ BatchReadOk
    \/ BatchReadFallback
    \/ FilterResults
    \/ BatchCancel

SpecBatch == BatchInit /\ [][BatchNext]_vars

\* the batches a refine has formed
BatchesFormed == batch_run.pc \in {"read", "done"}

\* the item a member of a batch refers to
member_item(m) == batch_in.items[m.item_index]

\* the item indices of the batches, batch after batch
RECURSIVE member_indices(_)
member_indices(batches) ==
    IF batches = <<>> THEN <<>>
    ELSE [k \in 1..Len(Head(batches).items) |-> Head(batches).items[k].item_index]
         \o member_indices(Tail(batches))

\* C35: clustering groups the address-sorted list into runs (every item in
\* one run, in list order) in which the gap between consecutive members is
\* at most BATCH_MAX_GAP and the run spans at most BATCH_MAX_SIZE bytes, and
\* each run is read with one read of its segment.
C35_ClusterRuns ==
    BatchesFormed =>
        /\ member_indices(batch_run.batches) = [i \in 1..Len(batch_in.items) |-> i]
        /\ \A b \in 1..Len(batch_run.batches) :
             LET batch == batch_run.batches[b]
                 batch_reads == {r \in 1..Len(batch_run.reads) :
                                   /\ batch_run.reads[r].kind = "batch"
                                   /\ batch_run.reads[r].batch = b}
             IN  /\ batch.items # <<>>
                 /\ batch.start_addr = member_item(batch.items[1]).address
                 /\ \A k \in 1..(Len(batch.items) - 1) :
                      member_item(batch.items[k + 1]).address
                          <= member_item(batch.items[k]).address
                               + batch.items[k].value_size + BATCH_MAX_GAP
                 /\ batch.total_size <= BATCH_MAX_SIZE
                 /\ \A k \in 1..Len(batch.items) :
                      member_item(batch.items[k]).address + batch.items[k].value_size
                          - batch.start_addr <= BATCH_MAX_SIZE
                 /\ Cardinality(batch_reads)
                      = (IF b < batch_run.idx
                            \/ (batch_run.result.kind = "panic" /\ b = batch_run.idx)
                         THEN 1 ELSE 0)
                 /\ \A r \in batch_reads :
                      /\ batch_run.reads[r].addr = batch.start_addr
                      /\ batch_run.reads[r].size = batch.total_size

\* a run of two members a full gap apart was read with one read
C35_GapRunRead ==
    /\ batch_run.pc = "done"
    /\ batch_run.result.kind = "ok"
    /\ ~batch_run.cancelled
    /\ Len(batch_run.batches) = 2
    /\ Len(batch_run.batches[1].items) = 2
    /\ batch_run.batches[1].total_size = BATCH_MAX_SIZE
    /\ member_item(batch_run.batches[1].items[2]).address
         = member_item(batch_run.batches[1].items[1]).address
             + batch_run.batches[1].items[1].value_size + BATCH_MAX_GAP
    /\ Len(batch_run.reads) = 2

\* C36: every member of every batch satisfies offset + value_size <=
\* total_size, so slicing the batch buffer for a member is in bounds.
C36_MemberInBounds ==
    BatchesFormed =>
        /\ \A b \in 1..Len(batch_run.batches) :
             \A k \in 1..Len(batch_run.batches[b].items) :
                batch_run.batches[b].items[k].offset + batch_run.batches[b].items[k].value_size
                    <= batch_run.batches[b].total_size
        /\ batch_run.result.kind # "panic"

=============================================================================
